---- MODULE Spec2Model ----
(***************************************************************************)
(* A model of collect_news.py: the feed normaliser, the keyword filter,    *)
(* the window selector, the Markdown and HTML renderers and the run        *)
(* orchestrator (main).                                                    *)
(*                                                                         *)
(* Representation.                                                         *)
(*   - A Python str is a sequence of Unicode code points (naturals), so    *)
(*     that comparison, lower-casing, slicing and escaping are computed    *)
(*     on the characters themselves.                                       *)
(*   - A naive datetime is a number of minutes; minute 0 is 00:00 of day   *)
(*     0.  strftime("%Y-%m-%d") is the day number (the order of the        *)
(*     formatted strings is the order of the days for four-digit years).  *)
(*   - An optional value (None or a value) is a sequence of length 0 or 1. *)
(*   - A rendered document is a sequence of lines or fragments, each a     *)
(*     tuple whose first element names the template line it comes from     *)
(*     and whose other elements are the values interpolated into it.       *)
(***************************************************************************)
EXTENDS Integers, Sequences, FiniteSets, TLC

VARIABLES
    pc,             \* position of main: idle, fetch, filter, summary, markdown, html, done, crashed
    args,           \* parse_args(): days, no_html, no_markdown, no_summary
    now,            \* datetime.now()
    start_date,     \* main's start_date
    end_date,       \* main's end_date
    feed_i,         \* index into RSS_FEEDS of the next feed of main's loop
    all_items,      \* main's all_items
    filtered_items, \* main's filtered_items
    summary,        \* main's summary (optional str)
    env,            \* the summarizer's environment: package importable, API key set
    disk,           \* the files under news/ and docs/
    log,            \* the stages the current run has executed, in order
    runs,           \* number of runs started
    inp,            \* input of a function applied on its own
    out             \* its result

vars == <<pc, args, now, start_date, end_date, feed_i, all_items, filtered_items,
          summary, env, disk, log, runs, inp, out>>

mainVars == <<pc, args, now, start_date, end_date, feed_i, all_items, filtered_items,
              summary, env, disk, log, runs>>

(***************************************************************************)
(* Optional values                                                         *)
(***************************************************************************)
None == <<>>

Some(x) == <<x>>

(***************************************************************************)
(* Strings                                                                 *)
(***************************************************************************)
\* s[i:j] of Python for 0 <= i <= j, as SubSeq on 1-based positions i+1..j
Slice(s, i, j) == SubSeq(s, i + 1, IF j > Len(s) THEN Len(s) ELSE j)

\* p occurs in s starting at position i (1-based)
IsPrefixAt(p, s, i) ==
    /\ i + Len(p) - 1 <= Len(s)
    /\ \A k \in 1..Len(p) : s[i + k - 1] = p[k]

\* Python's  p in s
Contains(p, s) == \E i \in 1..(Len(s) + 1) : IsPrefixAt(p, s, i)

\* Python's  s.startswith(p)
StartsWith(s, p) == IsPrefixAt(p, s, 1)

\* str.lower() on the ASCII letters; the other code points the model uses
\* (digits, punctuation, kana, kanji) have no case
lower(s) == [i \in 1..Len(s) |-> IF s[i] \in 65..90 THEN s[i] + 32 ELSE s[i]]

\* Python's str comparison  a < b : lexicographic on code points
RECURSIVE StrLess(_, _)
StrLess(a, b) ==
    IF Len(b) = 0 THEN FALSE
    ELSE IF Len(a) = 0 THEN TRUE
    ELSE IF a[1] # b[1] THEN a[1] < b[1]
    ELSE StrLess(Tail(a), Tail(b))

\* the concatenation of ss[lo..hi], by halves
RECURSIVE FlattenRange(_, _, _)
FlattenRange(ss, lo, hi) ==
    IF lo > hi THEN <<>>
    ELSE IF lo = hi THEN ss[lo]
    ELSE FlattenRange(ss, lo, (lo + hi) \div 2) \o FlattenRange(ss, (lo + hi) \div 2 + 1, hi)

\* ''.join(ss)
Flatten(ss) == FlattenRange(ss, 1, Len(ss))

\* str.replace(c, r) for a one-character c
ReplaceChar(s, c, r) ==
    IF \A i \in 1..Len(s) : s[i] # c THEN s
    ELSE Flatten([i \in 1..Len(s) |-> IF s[i] = c THEN r ELSE <<s[i]>>])

AMP == 38       \* &

LT == 60        \* <

GT == 62        \* >

QUOT == 34      \* "

SPACE == 32

HYPHEN == 45    \* -

ELLIPSIS == <<46, 46, 46>>              \* "..."

AMP_ENTITY == <<38, 97, 109, 112, 59>>  \* "&amp;"

LT_ENTITY == <<38, 108, 116, 59>>       \* "&lt;"

GT_ENTITY == <<38, 103, 116, 59>>       \* "&gt;"

QUOT_ENTITY == <<38, 113, 117, 111, 116, 59>>   \* "&quot;"

\* the characters re's \s matches among those the model uses:
\* tab, LF, VT, FF, CR, space and the ideographic space U+3000
Whitespace == {9, 10, 11, 12, 13, 32, 12288}

(***************************************************************************)
(* Configuration                                                           *)
(***************************************************************************)
SRC_RODO == <<21172, 20685, 26032, 32862, 31038>>                       \* rodo shimbun-sha

SRC_ROUMU == <<21172, 21209, 12489, 12483, 12488, 12467, 12512>>        \* roumu dot com

SRC_JINJIBU == <<26085, 26412, 12398, 20154, 20107, 37096>>             \* nihon no jinjibu

SRC_SATO == <<83, 65, 84, 79, 32, 80, 79, 82, 84, 65, 76>>              \* "SATO PORTAL"

SRC_BENGO == <<24321, 35703, 22763, 12489, 12483, 12488, 12467, 12512>> \* bengoshi dot com

SRC_PSR == <<80, 83, 82, 12493, 12483, 12488, 12527, 12540, 12463>>     \* "PSR" network

\* (source name, URL) pairs; the URL is named by its position in the list
RSS_FEEDS ==
    << SRC_RODO, SRC_ROUMU, SRC_JINJIBU, SRC_JINJIBU,
       SRC_SATO, SRC_BENGO, SRC_PSR, SRC_PSR >>

LABOR_KEYWORDS == <<
    <<21172, 20685>>,
    <<38599, 29992>>,
    <<36035, 37329>>,
    <<32102, 19982>>,
    <<27531, 26989>>,
    <<20685, 12365, 26041>>,
    <<21172, 21209>>,
    <<20154, 20107>>,
    <<25505, 29992>>,
    <<36864, 32887>>,
    <<35299, 38599>>,
    <<20241, 26247>>,
    <<26377, 32102>>,
    <<32946, 20816>>,
    <<20171, 35703>>,
    <<12495, 12521, 12473, 12513, 12531, 12488>>,
    <<12497, 12527, 12495, 12521>>,
    <<12475, 12463, 12495, 12521>>,
    <<21172, 28797>>,
    <<31038, 20250, 20445, 38522>>,
    <<21402, 29983, 24180, 37329>>,
    <<20581, 24247, 20445, 38522>>,
    <<38599, 29992, 20445, 38522>>,
    <<21172, 20685, 22522, 28310>>,
    <<26368, 20302, 36035, 37329>>,
    <<21516, 19968, 21172, 20685>>,
    <<12486, 12524, 12527, 12540, 12463>>,
    <<22312, 23429, 21220, 21209>>,
    <<21103, 26989>>,
    <<20860, 26989>>,
    <<23450, 24180>>,
    <<20877, 38599, 29992>>,
    <<27966, 36963>>,
    <<22865, 32004, 31038, 21729>>,
    <<27491, 31038, 21729>>,
    <<38750, 27491, 35215>>,
    <<23601, 26989, 35215, 21063>>,
    <<21172, 20685, 32068, 21512>>,
    <<22243, 20307, 20132, 28169>>,
    <<12473, 12488, 12521, 12452, 12461>>,
    <<51, 54, 21332, 23450>>,
    <<23433, 20840, 34907, 29983>>,
    <<12513, 12531, 12479, 12523, 12504, 12523, 12473>>,
    <<36942, 21172>>,
    <<38263, 26178, 38291, 21172, 20685>> >>

DEFAULT_DAYS == 7

\* minutes of a day: the unit of timedelta(days=1)
MinutesPerDay == 1440

\* fetch_feed cuts an article's summary to this many characters
SummaryLimit == 200

\* generate_markdown cuts the quoted summary to this many characters
MarkdownSummaryLimit == 100

\* generate_html cuts the card's (escaped) summary to this many characters
CardSummaryLimit == 120

(***************************************************************************)
(* Feed normaliser                                                         *)
(***************************************************************************)
\* the references of the model's inputs, without their semicolon, and the
\* characters they stand for
HtmlEntities ==
    { <<<<38, 97, 109, 112>>, AMP>>, <<<<38, 108, 116>>, LT>>,
      <<<<38, 103, 116>>, GT>>, <<<<38, 113, 117, 111, 116>>, QUOT>> }

SEMICOLON == 59

\* the length of the reference that starts at position i of s, or 0: html5
\* holds amp, lt, gt and quot with and without the semicolon
reference_len(s, i) ==
    IF \E e \in HtmlEntities : IsPrefixAt(e[1], s, i)
    THEN LET n == Len((CHOOSE e \in HtmlEntities : IsPrefixAt(e[1], s, i))[1])
         IN  IF i + n <= Len(s) /\ s[i + n] = SEMICOLON THEN n + 1 ELSE n
    ELSE 0

\* position i lies inside a reference that starts before it (a reference
\* holds no & after its first character, so references do not overlap)
inside_reference(s, i) ==
    \E k \in 1..6 : i - k >= 1 /\ reference_len(s, i - k) > k

\* what position i of s contributes to html.unescape(s)
unescape_at(s, i) ==
    IF reference_len(s, i) > 0
    THEN <<(CHOOSE e \in HtmlEntities : IsPrefixAt(e[1], s, i))[2]>>
    ELSE IF inside_reference(s, i) THEN <<>>
    ELSE <<s[i]>>

\* html.unescape on the references &amp; &lt; &gt; &quot; (other references
\* do not occur in the model's inputs): the text a reference decodes to is
\* not decoded again
unescape(s) ==
    IF \A i \in 1..Len(s) : s[i] # AMP THEN s
    ELSE Flatten([i \in 1..Len(s) |-> unescape_at(s, i)])

\* the position of the first > at or after position i, or 0
NextGt(s, i) ==
    IF \E j \in i..Len(s) : s[j] = GT
    THEN CHOOSE j \in i..Len(s) : s[j] = GT /\ \A k \in i..(j - 1) : s[k] # GT
    ELSE 0

\* the position of the last > before position i, or 0
PrevGt(s, i) ==
    IF \E j \in 1..(i - 1) : s[j] = GT
    THEN CHOOSE j \in 1..(i - 1) : s[j] = GT /\ \A k \in (j + 1)..(i - 1) : s[k] # GT
    ELSE 0

\* the position of the first < in s[a..b], or 0
FirstLt(s, a, b) ==
    IF \E j \in a..b : s[j] = LT
    THEN CHOOSE j \in a..b : s[j] = LT /\ \A k \in a..(j - 1) : s[k] # LT
    ELSE 0

\* a match of <[^>]+> ends at the > at position j and begins at position i:
\* the first < after the > before j, when a character lies between them
tag_from_to(s, i, j) == j > 0 /\ i > 0 /\ i < j - 1

\* position k lies in a match of <[^>]+> : the matches are found from the
\* left, none spans a > , so the one ending at the next > begins at the
\* first < after the previous >
in_tag(s, k) ==
    /\ NextGt(s, k) > 0
    /\ tag_from_to(s, FirstLt(s, PrevGt(s, k) + 1, NextGt(s, k) - 1), NextGt(s, k))
    /\ FirstLt(s, PrevGt(s, k) + 1, NextGt(s, k) - 1) <= k

\* re.sub(r'<[^>]+>', '', s)
strip_tags(s) ==
    IF \A i \in 1..Len(s) : s[i] # LT THEN s
    ELSE Flatten([k \in 1..Len(s) |-> IF in_tag(s, k) THEN <<>> ELSE <<s[k]>>])

\* what position i of s contributes to re.sub(r'\s+', ' ', s): a run of
\* white space gives one space, at its first position
collapse_ws_at(s, i) ==
    IF s[i] \notin Whitespace THEN <<s[i]>>
    ELSE IF i > 1 /\ s[i - 1] \in Whitespace THEN <<>>
    ELSE <<SPACE>>

\* re.sub(r'\s+', ' ', s)
collapse_ws(s) ==
    IF \A i \in 1..Len(s) : s[i] \notin Whitespace THEN s
    ELSE Flatten([i \in 1..Len(s) |-> collapse_ws_at(s, i)])

RECURSIVE lstrip_set(_, _)
\* str.lstrip(chars)
lstrip_set(s, chars) ==
    IF Len(s) > 0 /\ s[1] \in chars THEN lstrip_set(Tail(s), chars) ELSE s

RECURSIVE rstrip_set(_, _)
\* str.rstrip(chars)
rstrip_set(s, chars) ==
    IF Len(s) > 0 /\ s[Len(s)] \in chars
    THEN rstrip_set(SubSeq(s, 1, Len(s) - 1), chars)
    ELSE s

\* str.strip()
strip(s) == rstrip_set(lstrip_set(s, Whitespace), Whitespace)

\* clean_html without the removal of the tags
clean_html_keeping_tags(text) ==
    IF Len(text) = 0 THEN <<>>
    ELSE strip(collapse_ws(unescape(text)))

clean_html(text) ==
    IF Len(text) = 0 THEN <<>>
    ELSE strip(collapse_ws(strip_tags(unescape(text))))

\* a time tuple datetime(...) rejects with ValueError
InvalidTime == -1

\* parse_date looking at the updated time first
parse_date_updated_first(entry, t_now) ==
    IF entry.updated_parsed # None
    THEN [raised |-> entry.updated_parsed[1] = InvalidTime,
          value  |-> entry.updated_parsed[1]]
    ELSE IF entry.published_parsed # None
    THEN [raised |-> entry.published_parsed[1] = InvalidTime,
          value  |-> entry.published_parsed[1]]
    ELSE [raised |-> FALSE, value |-> t_now]

\* parse_date: [raised, value]; datetime(*t[:6]) raises on an invalid tuple
parse_date(entry, t_now) ==
    IF entry.published_parsed # None
    THEN [raised |-> entry.published_parsed[1] = InvalidTime,
          value  |-> entry.published_parsed[1]]
    ELSE IF entry.updated_parsed # None
    THEN [raised |-> entry.updated_parsed[1] = InvalidTime,
          value  |-> entry.updated_parsed[1]]
    ELSE [raised |-> FALSE, value |-> t_now]

(***************************************************************************)
(* Topic filter                                                            *)
(***************************************************************************)
\* the test with all in the place of any
is_labor_related_all(text) ==
    LET text_lower == lower(text)
    IN  \A k \in 1..Len(LABOR_KEYWORDS) : Contains(LABOR_KEYWORDS[k], text_lower)

is_labor_related(text) ==
    LET text_lower == lower(text)
    IN  \E k \in 1..Len(LABOR_KEYWORDS) : Contains(LABOR_KEYWORDS[k], text_lower)

(***************************************************************************)
(* fetch_feed                                                              *)
(***************************************************************************)
NewsItem(title, link, published, summary_text, source) ==
    [title |-> title, link |-> link, published |-> published,
     summary |-> summary_text, source |-> source]

\* entry.get('summary', entry.get('description', ''))
entry_summary(entry) ==
    IF entry.summary # None THEN entry.summary[1]
    ELSE IF entry.description # None THEN entry.description[1]
    ELSE <<>>

\* summary[:200] + "..." if len(summary) > 200 else summary
truncate_summary(s) ==
    IF Len(s) > SummaryLimit THEN Slice(s, 0, SummaryLimit) \o ELLIPSIS ELSE s

\* the for loop over feed.entries from entry i on, with the items appended
\* so far; exc: an exception left the loop
RECURSIVE fetch_entries(_, _, _, _, _)
fetch_entries(entries, i, source_name, t_now, items) ==
    IF i > Len(entries) THEN [items |-> items, exc |-> FALSE]
    ELSE LET entry     == entries[i]
             title     == clean_html(entry.title)
             link      == entry.link
             s         == clean_html(entry_summary(entry))
             published == parse_date(entry, t_now)
         IN  IF published.raised
             THEN [items |-> items, exc |-> TRUE]
             ELSE fetch_entries(entries, i + 1, source_name, t_now,
                      IF is_labor_related(title \o s)
                      THEN Append(items,
                               NewsItem(title, link, published.value,
                                        truncate_summary(s), source_name))
                      ELSE items)

\* the body of fetch_feed's try block; feed is what feedparser.parse(url)
\* does: it raises, or gives bozo and entries
fetch_feed_try(feed, source_name, t_now) ==
    IF feed.raises THEN [items |-> <<>>, exc |-> TRUE]
    ELSE IF feed.bozo /\ Len(feed.entries) = 0 THEN [items |-> <<>>, exc |-> FALSE]
    ELSE fetch_entries(feed.entries, 1, source_name, t_now, <<>>)

\* fetch_feed without its except clause
fetch_feed_unguarded(feed, source_name, t_now) ==
    LET r == fetch_feed_try(feed, source_name, t_now)
    IN  [items |-> r.items, raised |-> r.exc]

\* fetch_feed: except Exception swallows what the body raises and the items
\* appended before it are returned
fetch_feed(feed, source_name, t_now) ==
    LET r == fetch_feed_try(feed, source_name, t_now)
    IN  [items |-> r.items, raised |-> FALSE]

(***************************************************************************)
(* Window selector                                                         *)
(***************************************************************************)
\* datetime.replace(hour=0, minute=0, second=0, microsecond=0)
midnight(t) == t - (t % MinutesPerDay)

in_date_range(item, start, end) ==
    LET item_date == midnight(item.published)
    IN  start <= item_date /\ item_date <= end

filter_by_date_range(items, start, end) ==
    SelectSeq(items, LAMBDA item : in_date_range(item, start, end))

\* main: end_date = now at 00:00, start_date = end_date - timedelta(days - 1)
window_end(t_now) == midnight(t_now)

\* a window that begins days, and not days - 1, days before its end
window_start_early(t_now, days) == window_end(t_now) - days * MinutesPerDay

window_start(t_now, days) == window_end(t_now) - (days - 1) * MinutesPerDay

(***************************************************************************)
(* Grouping and ordering                                                   *)
(***************************************************************************)
\* strftime("%Y-%m-%d")
date_str(t) == t \div MinutesPerDay

\* strftime("%H:%M")
time_str(t) == t % MinutesPerDay

Range(s) == {s[i] : i \in 1..Len(s)}

\* group_by_date: the keys, and the list of one key in input order
date_keys(items) == {date_str(items[i].published) : i \in 1..Len(items)}

by_date(items, d) == SelectSeq(items, LAMBDA item : date_str(item.published) = d)

source_keys(items) == {items[i].source : i \in 1..Len(items)}

by_source(items, s) == SelectSeq(items, LAMBDA item : item.source = s)

\* sorted(keys, reverse=True) for day keys
RECURSIVE sorted_days_desc(_)
sorted_days_desc(S) ==
    IF S = {} THEN <<>>
    ELSE LET m == CHOOSE x \in S : \A y \in S : y <= x
         IN  <<m>> \o sorted_days_desc(S \ {m})

\* the source names in descending order
RECURSIVE sorted_sources_desc(_)
sorted_sources_desc(S) ==
    IF S = {} THEN <<>>
    ELSE LET m == CHOOSE x \in S : \A y \in S \ {x} : StrLess(y, x)
         IN  <<m>> \o sorted_sources_desc(S \ {m})

\* sorted(...) for source names (the keys of a dict are distinct)
RECURSIVE sorted_sources(_)
sorted_sources(S) ==
    IF S = {} THEN <<>>
    ELSE LET m == CHOOSE x \in S : \A y \in S \ {x} : StrLess(x, y)
         IN  <<m>> \o sorted_sources(S \ {m})

\* the items as they come, not sorted
in_input_order(items) == items

\* sorted(items, key=lambda x: x.published, reverse=True): the sort is
\* stable, so items with equal keys keep their input order
RECURSIVE sorted_by_published_desc(_)
sorted_by_published_desc(items) ==
    IF Len(items) = 0 THEN <<>>
    ELSE LET n    == Len(items)
             init == sorted_by_published_desc(SubSeq(items, 1, n - 1))
             x    == items[n]
             k    == Cardinality({i \in 1..Len(init) : init[i].published >= x.published})
         IN  SubSeq(init, 1, k) \o <<x>> \o SubSeq(init, k + 1, Len(init))

(***************************************************************************)
(* Markdown renderer                                                       *)
(***************************************************************************)
md_item_lines(item) ==
    << <<"item", item.title, item.link, time_str(item.published)>> >>
    \o (IF Len(item.summary) > 0
        THEN << <<"quote",
                  IF Len(item.summary) > MarkdownSummaryLimit
                  THEN Slice(item.summary, 0, MarkdownSummaryLimit) \o ELLIPSIS
                  ELSE item.summary>> >>
        ELSE <<>>)

md_source_lines(source, source_items) ==
    << <<"source", source>>, <<"blank">> >>
    \o Flatten([i \in 1..Len(source_items) |->
                   md_item_lines(sorted_by_published_desc(source_items)[i])])
    \o << <<"blank">> >>

md_day_lines(d, date_items) ==
    LET sources == sorted_sources(source_keys(date_items))
    IN  << <<"day", d, Len(date_items)>>, <<"blank">> >>
        \o Flatten([i \in 1..Len(sources) |->
                       md_source_lines(sources[i], by_source(date_items, sources[i]))])
        \o << <<"rule">>, <<"blank">> >>

generate_markdown(items, start, end, t_now) ==
    LET days == sorted_days_desc(date_keys(items))
    IN  << <<"h1">>,
           <<"period", date_str(start), date_str(end)>>,
           <<"blank">>,
           <<"collected", t_now>>,
           <<"blank">>,
           <<"count", Len(items)>>,
           <<"blank">>,
           <<"rule">>,
           <<"blank">> >>
        \o Flatten([i \in 1..Len(days) |-> md_day_lines(days[i], by_date(items, days[i]))])

(***************************************************************************)
(* HTML renderer                                                           *)
(***************************************************************************)
escape_html(text) ==
    ReplaceChar(ReplaceChar(ReplaceChar(ReplaceChar(text,
        AMP, AMP_ENTITY), LT, LT_ENTITY), GT, GT_ENTITY), QUOT, QUOT_ENTITY)

ICON_RODO == <<114, 111, 100, 111>>                     \* "rodo"

ICON_ROUMU == <<114, 111, 117, 109, 117>>               \* "roumu"

ICON_JINJIBU == <<106, 105, 110, 106, 105, 98, 117>>    \* "jinjibu"

ICON_SATO == <<115, 97, 116, 111>>                      \* "sato"

ICON_BENGO == <<98, 101, 110, 103, 111>>                \* "bengo"

ICON_PSR == <<112, 115, 114>>                           \* "psr"

ICON_DEFAULT == <<100, 101, 102, 97, 117, 108, 116>>    \* "default"

get_source_icon_class(source) ==
    IF Contains(<<21172, 20685, 26032, 32862>>, source) THEN ICON_RODO
    ELSE IF \/ Contains(SRC_ROUMU, source)
            \/ Contains(ICON_ROUMU, lower(source)) THEN ICON_ROUMU
    ELSE IF Contains(<<20154, 20107, 37096>>, source) THEN ICON_JINJIBU
    ELSE IF Contains(<<83, 65, 84, 79>>, source) THEN ICON_SATO
    ELSE IF Contains(SRC_BENGO, source) THEN ICON_BENGO
    ELSE IF Contains(<<80, 83, 82>>, source) THEN ICON_PSR
    ELSE ICON_DEFAULT

\* the emoji of a source, by the same tests as its icon class
get_source_emoji(source) ==
    LET c == get_source_icon_class(source)
    IN  IF c = ICON_RODO THEN <<128240>>
        ELSE IF c = ICON_ROUMU THEN <<128188>>
        ELSE IF c = ICON_JINJIBU THEN <<128101>>
        ELSE IF c = ICON_SATO THEN <<127970>>
        ELSE IF c = ICON_BENGO THEN <<9878, 65039>>
        ELSE IF c = ICON_PSR THEN <<128203>>
        ELSE <<128196>>

\* weekdays[date_obj.weekday()]: day 0 of the model is a Monday
get_weekday_jp(d) == d % 7

\* icon_class if icon_class != "default" else source.lower().replace(" ", "-")
filter_id(source) ==
    LET icon_class == get_source_icon_class(source)
    IN  IF icon_class # ICON_DEFAULT THEN icon_class
        ELSE ReplaceChar(lower(source), SPACE, <<HYPHEN>>)

\* summary_escaped[:120] + "..." if len(summary_escaped) > 120 else summary_escaped
card_short_summary(item) ==
    LET summary_escaped == IF Len(item.summary) > 0 THEN escape_html(item.summary) ELSE <<>>
    IN  IF Len(summary_escaped) > CardSummaryLimit
        THEN Slice(summary_escaped, 0, CardSummaryLimit) \o ELLIPSIS
        ELSE summary_escaped

html_card(item) ==
    <<"news-card",
      [data_source   |-> filter_id(item.source),
       icon_class    |-> get_source_icon_class(item.source),
       emoji         |-> get_source_emoji(item.source),
       source        |-> escape_html(item.source),
       time_str      |-> time_str(item.published),
       href          |-> escape_html(item.link),
       title         |-> escape_html(item.title),
       summary       |-> card_short_summary(item),
       date_display  |-> date_str(item.published)]>>

\* a day's cards grouped by source, as generate_markdown lists them
html_day_section_by_source(d, date_items) ==
    LET sources == sorted_sources(source_keys(date_items))
    IN  << <<"date-section", d, get_weekday_jp(d), Len(date_items)>> >>
        \o Flatten([i \in 1..Len(sources) |->
              [n \in 1..Len(by_source(date_items, sources[i])) |->
                  html_card(sorted_by_published_desc(by_source(date_items, sources[i]))[n])]])
        \o << <<"/date-section">> >>

html_day_section(d, date_items) ==
    << <<"date-section", d, get_weekday_jp(d), Len(date_items)>> >>
    \o [i \in 1..Len(date_items) |-> html_card(sorted_by_published_desc(date_items)[i])]
    \o << <<"/date-section">> >>

html_content(items) ==
    LET days == sorted_days_desc(date_keys(items))
    IN  Flatten([i \in 1..Len(days) |-> html_day_section(days[i], by_date(items, days[i]))])

\* html_source_filters with the days of a source counted, not its articles
html_source_filters_counting_days(items) ==
    LET sources == sorted_sources(source_keys(items))
    IN  [i \in 1..Len(sources) |->
            <<"filter-tab",
              [data_filter |-> filter_id(sources[i]),
               icon_class  |-> get_source_icon_class(sources[i]),
               emoji       |-> get_source_emoji(sources[i]),
               source      |-> escape_html(sources[i]),
               count       |-> Cardinality(date_keys(by_source(items, sources[i])))]>>]

html_source_filters(items) ==
    LET sources == sorted_sources(source_keys(items))
    IN  [i \in 1..Len(sources) |->
            <<"filter-tab",
              [data_filter |-> filter_id(sources[i]),
               icon_class  |-> get_source_icon_class(sources[i]),
               emoji       |-> get_source_emoji(sources[i]),
               source      |-> escape_html(sources[i]),
               count       |-> Len(by_source(items, sources[i]))]>>]

html_date_nav(items) ==
    LET days == sorted_days_desc(date_keys(items))
    IN  [i \in 1..Len(days) |->
            <<"date-nav-item", days[i], get_weekday_jp(days[i]), i = 1>>]

\* if summary:  (neither None nor the empty string)
truthy(opt) == opt # None /\ Len(opt[1]) > 0

html_archive_section(archives) ==
    [i \in 1..Len(archives) |->
        <<"archive-item", archives[i][1], archives[i][2], archives[i][3]>>]

(***************************************************************************)
(* Summary parser                                                          *)
(***************************************************************************)
NEWLINE == 10

CAT_LAW == <<128220, 32, 27861, 25913, 27491, 12539, 21046, 24230, 22793, 26356>>

CAT_COURT == <<9878, 65039, 32, 35009, 21028, 20363, 12539, 21028, 20363>>

CAT_SUBSIDY == <<128176, 32, 21161, 25104, 37329, 12539, 35036, 21161, 37329>>

CAT_OTHER == <<128204, 32, 12381, 12398, 20182, 37325, 35201, 12488, 12500, 12483, 12463>>

\* the keys of the categories dict, in insertion order
CATEGORY_NAMES == <<CAT_LAW, CAT_COURT, CAT_SUBSIDY, CAT_OTHER>>

\* "[" and the label of the keyword annotation (kanren kiiwaado)
KEYWORD_OPEN == <<91, 38306, 36899, 12461, 12540, 12527, 12540, 12489>>

\* ":" and the full-width colon
KEYWORD_COLONS == {58, 65306}

RBRACKET == 93

COMMA == 44

\* "## "
HEADING == <<35, 35, 32>>

\* the smallest i >= from at which p occurs in s, or 0
FirstIndex(p, s, from) ==
    IF \E i \in from..(Len(s) + 1) : IsPrefixAt(p, s, i)
    THEN CHOOSE i \in from..(Len(s) + 1) :
             /\ IsPrefixAt(p, s, i)
             /\ \A j \in from..(i - 1) : ~IsPrefixAt(p, s, j)
    ELSE 0

\* str.split(sep)
RECURSIVE Split(_, _)
Split(s, sep) ==
    LET i == FirstIndex(sep, s, 1)
    IN  IF i = 0 THEN <<s>>
        ELSE <<SubSeq(s, 1, i - 1)>> \o Split(SubSeq(s, i + Len(sep), Len(s)), sep)

\* re.sub(d(.+?)d, r'\1', s) for a delimiter d: the shortest non-empty text
\* between two delimiters loses them, from the left
RECURSIVE sub_delimited_from(_, _, _)
sub_delimited_from(s, d, i) ==
    IF i > Len(s) THEN <<>>
    ELSE LET j == IF IsPrefixAt(d, s, i) THEN FirstIndex(d, s, i + Len(d) + 1) ELSE 0
         IN  IF j # 0
             THEN SubSeq(s, i + Len(d), j - 1) \o sub_delimited_from(s, d, j + Len(d))
             ELSE <<s[i]>> \o sub_delimited_from(s, d, i + 1)

\* the three re.sub calls: **bold**, *italic*, `code`
strip_markdown(line) ==
    sub_delimited_from(
        sub_delimited_from(
            sub_delimited_from(line, <<42, 42>>, 1),
            <<42>>, 1),
        <<96>>, 1)

\* whether the annotation pattern matches at position i
keyword_match_at(line, i) ==
    /\ IsPrefixAt(KEYWORD_OPEN, line, i)
    /\ i + Len(KEYWORD_OPEN) <= Len(line)
    /\ line[i + Len(KEYWORD_OPEN)] \in KEYWORD_COLONS
    \* the ] that ends [^\]]+ lies beyond the first position after the colon
    /\ FirstIndex(<<RBRACKET>>, line, i + Len(KEYWORD_OPEN) + 1) > i + Len(KEYWORD_OPEN) + 1

\* group 1 of a match whose text after the colon is line[c..j-1]: \s* is
\* greedy but leaves one character to [^\]]+
keyword_group(line, c, j) ==
    LET g == CHOOSE g \in c..(j - 1) :
                 /\ \A k \in c..(g - 1) : line[k] \in Whitespace
                 /\ g = j - 1 \/ line[g] \notin Whitespace
    IN  SubSeq(line, g, j - 1)

keyword_match_from(line, i) ==
    [found |-> TRUE, start |-> i,
     group |-> keyword_group(line, i + Len(KEYWORD_OPEN) + 1,
                   FirstIndex(<<RBRACKET>>, line, i + Len(KEYWORD_OPEN) + 1))]

\* re.search(r'\[...[:...]\s*([^\]]+)\]', line): [found, start, group]
keyword_match(line) ==
    IF \E i \in 1..Len(line) : keyword_match_at(line, i)
    THEN keyword_match_from(line,
             CHOOSE i \in 1..Len(line) :
                 /\ keyword_match_at(line, i)
                 /\ \A k \in 1..(i - 1) : ~keyword_match_at(line, k))
    ELSE [found |-> FALSE, start |-> 0, group |-> <<>>]

\* [k.strip() for k in group.split(',')]
split_keywords(group) ==
    LET parts == Split(group, <<COMMA>>)
    IN  [k \in 1..Len(parts) |-> strip(parts[k])]

parse_summary_line_with(line, m) ==
    IF m.found
    THEN [text     |-> strip(strip_markdown(strip(SubSeq(line, 1, m.start - 1)))),
          keywords |-> split_keywords(m.group)]
    ELSE [text |-> strip(strip_markdown(line)), keywords |-> <<>>]

\* parse_summary_line of generate_html: [text, keywords]
parse_summary_line(line) == parse_summary_line_with(line, keyword_match(line))

clean_text_with(t, m) ==
    strip(IF m.found THEN strip(SubSeq(t, 1, m.start - 1)) ELSE t)

clean_text_stripped(t) == clean_text_with(t, keyword_match(t))

\* clean_text of parse_summary_to_categories: the markup is removed first,
\* the annotation is cut afterwards
clean_text(text) == clean_text_stripped(strip_markdown(text))

\* cat_name in header_text or header_text in cat_name
category_matches(k, header_text) ==
    \/ Contains(CATEGORY_NAMES[k], header_text)
    \/ Contains(header_text, CATEGORY_NAMES[k])

\* the first category, in dict order, that matches the heading
match_category(header_text) ==
    IF \E k \in 1..Len(CATEGORY_NAMES) : category_matches(k, header_text)
    THEN Some(CATEGORY_NAMES[
             CHOOSE k \in 1..Len(CATEGORY_NAMES) :
                 /\ category_matches(k, header_text)
                 /\ \A l \in 1..(k - 1) : ~category_matches(l, header_text)])
    ELSE None

category_index(cat_name) ==
    CHOOSE k \in 1..Len(CATEGORY_NAMES) : CATEGORY_NAMES[k] = cat_name

\* "- ", the katakana middle dot, "* " and the bullet
BULLET_CHARS == {45, 12539, 8226, 32}

STAR_CHARS == {42, 32}

is_dash_bullet(line) ==
    \/ StartsWith(line, <<45, 32>>)
    \/ StartsWith(line, <<12539>>)
    \/ StartsWith(line, <<8226, 32>>)

is_star_bullet(line) == StartsWith(line, <<42, 32>>)

Digits == 48..57

\* line starts with n digits and "." or ")" and has more text
numbered_prefix(line, n) ==
    /\ \A k \in 1..n : line[k] \in Digits
    /\ n + 2 <= Len(line)
    /\ line[n + 1] \in {46, 41}

\* group 1 of \s*(.+)$ on the text after the marker
numbered_group(rest) ==
    IF \A k \in 1..Len(rest) : rest[k] \in Whitespace
    THEN SubSeq(rest, Len(rest), Len(rest))
    ELSE lstrip_set(rest, Whitespace)

\* re.match(r'^\d+[\.\)]\s*(.+)$', line): the group, or None
numbered_item(line) ==
    IF \E n \in 1..Len(line) : numbered_prefix(line, n)
    THEN Some(numbered_group(
             SubSeq(line, (CHOOSE n \in 1..Len(line) : numbered_prefix(line, n)) + 2,
                    Len(line))))
    ELSE None

\* the item text of a bullet line, or None
bullet_item_text(line) ==
    IF is_dash_bullet(line) THEN Some(strip(lstrip_set(line, BULLET_CHARS)))
    ELSE IF is_star_bullet(line) THEN Some(strip(lstrip_set(line, STAR_CHARS)))
    ELSE None

\* the item text of a line under a category in generate_html, or None
html_item_text(line) ==
    IF is_dash_bullet(line) \/ is_star_bullet(line) THEN bullet_item_text(line)
    ELSE IF ~StartsWith(line, <<35>>) /\ ~StartsWith(line, <<42, 42>>)
         THEN numbered_item(line)
    ELSE None

\* categories[current_category]["items"].append(...) if text
html_add_parsed(parsed, st) ==
    IF Len(parsed.text) > 0
    THEN [st EXCEPT !.cats[category_index(st.cur[1])] = Append(@, parsed)]
    ELSE st

\* if item_text: text, keywords = parse_summary_line(item_text)
html_add_item(item_text, st) ==
    IF truthy(item_text) THEN html_add_parsed(parse_summary_line(item_text[1]), st) ELSE st

\* a heading that matches a category makes it current; one that matches
\* none leaves current_category as it is
html_heading(m, st) == IF m # None THEN [st EXCEPT !.cur = m] ELSE st

\* one turn of generate_html's loop over the lines, on the stripped line;
\* st.cur is current_category, st.cats the items of each category
html_line(line, st) ==
    IF Len(line) = 0 THEN st
    ELSE IF StartsWith(line, HEADING)
    THEN html_heading(match_category(strip(SubSeq(line, 4, Len(line)))), st)
    ELSE IF st.cur = None THEN st
    ELSE html_add_item(html_item_text(line), st)

RECURSIVE html_parse_lines(_, _, _)
html_parse_lines(lines, i, st) ==
    IF i > Len(lines) THEN st.cats
    ELSE html_parse_lines(lines, i + 1, html_line(strip(lines[i]), st))

\* the items of each of the four categories, in dict order
html_categories(summary_text) ==
    html_parse_lines(Split(summary_text, <<NEWLINE>>), 1,
                     [cur |-> None, cats |-> [k \in 1..Len(CATEGORY_NAMES) |-> <<>>]])

\* cat_name.split(" ", 1)[1] if " " in cat_name else cat_name
category_title_at(cat_name, i) ==
    IF i = 0 THEN cat_name ELSE SubSeq(cat_name, i + 1, Len(cat_name))

category_title(cat_name) == category_title_at(cat_name, FirstIndex(<<SPACE>>, cat_name, 1))

\* ','.join(keywords)
RECURSIVE join_comma(_)
join_comma(keywords) ==
    IF Len(keywords) = 0 THEN <<>>
    ELSE IF Len(keywords) = 1 THEN keywords[1]
    ELSE keywords[1] \o <<COMMA>> \o join_comma(Tail(keywords))

\* one <li>: the data-keywords attribute, the text and the keyword badges
html_summary_item(item) ==
    <<"summary-item",
      [data_keywords |-> IF Len(item.keywords) > 0
                         THEN escape_html(join_comma(item.keywords))
                         ELSE <<>>,
       text          |-> escape_html(item.text),
       keywords      |-> [k \in 1..Len(item.keywords) |-> escape_html(item.keywords[k])]]>>

\* the flat-list fallback's turn for one stripped line: its <li>, if any
html_flat_parsed(parsed) ==
    IF Len(parsed.text) > 0 THEN <<html_summary_item(parsed)>> ELSE <<>>

html_flat_item(item_text) ==
    IF truthy(item_text) THEN html_flat_parsed(parse_summary_line(item_text[1])) ELSE <<>>

html_flat_items(summary_text) ==
    LET lines == Split(summary_text, <<NEWLINE>>)
    IN  Flatten([i \in 1..Len(lines) |-> html_flat_item(bullet_item_text(strip(lines[i])))])

html_paragraphs_of(blocks, summary_text) ==
    IF Len(blocks) > 0
    THEN [i \in 1..Len(blocks) |-> <<"p", escape_html(strip(blocks[i]))>>]
    ELSE << <<"p", escape_html(summary_text)>> >>

html_paragraphs(summary_text) ==
    html_paragraphs_of(SelectSeq(Split(summary_text, <<NEWLINE, NEWLINE>>),
                                 LAMBDA b : Len(strip(b)) > 0),
                       summary_text)

\* the section of category k with its items
html_category_section(k, cat_items) ==
    << <<"summary-category", k, escape_html(category_title(CATEGORY_NAMES[k]))>> >>
    \o [n \in 1..Len(cat_items) |-> html_summary_item(cat_items[n])]

RECURSIVE html_category_sections(_, _)
html_category_sections(cats, k) ==
    IF k > Len(cats) THEN <<>>
    ELSE (IF Len(cats[k]) > 0 THEN html_category_section(k, cats[k]) ELSE <<>>)
         \o html_category_sections(cats, k + 1)

\* the fallback without the flat list
html_fallback_paragraphs_only(flat, summary_text) == html_paragraphs(summary_text)

html_fallback(flat, summary_text) ==
    IF Len(flat) > 0 THEN << <<"ul">> >> \o flat ELSE html_paragraphs(summary_text)

html_content_of(category_sections, summary_text) ==
    IF Len(category_sections) > 0 THEN category_sections
    ELSE html_fallback(html_flat_items(summary_text), summary_text)

\* summary_content: the categorized list, else the flat list, else paragraphs
html_summary_content(summary_text) ==
    html_content_of(html_category_sections(html_categories(summary_text), 1), summary_text)

html_summary_section(summary_opt) ==
    IF truthy(summary_opt)
    THEN << <<"summary-card">> >> \o html_summary_content(summary_opt[1])
    ELSE <<>>

generate_html(items, start, end, summary_opt, archives, t_now) ==
    [period          |-> <<date_str(start), date_str(end)>>,
     total_count     |-> Len(items),
     source_count    |-> Cardinality(source_keys(items)),
     day_count       |-> Cardinality(date_keys(items)),
     collected_at    |-> t_now,
     summary_section |-> html_summary_section(summary_opt),
     archive_section |-> html_archive_section(archives),
     content         |-> html_content(items),
     source_filters  |-> html_source_filters(items),
     date_nav        |-> html_date_nav(items)]

(***************************************************************************)
(* Archive index, persistence and the summary-history page                 *)
(***************************************************************************)
\* the order of the file names {start}_{end}.html and {start}_{end}.json
PeriodLess(p, q) == p[1] < q[1] \/ (p[1] = q[1] /\ p[2] < q[2])

\* sorted(glob(...), reverse=True)
RECURSIVE sorted_periods_desc(_)
sorted_periods_desc(S) ==
    IF S = {} THEN <<>>
    ELSE LET m == CHOOSE x \in S : \A y \in S \ {x} : PeriodLess(y, x)
         IN  <<m>> \o sorted_periods_desc(S \ {m})

\* get_archive_list without the insertion of the current period
get_archive_list_found_only(current, html_files) ==
    LET found == sorted_periods_desc(html_files)
    IN  [i \in 1..Len(found) |-> <<found[i], found[i], found[i] = current>>]

\* get_archive_list with the current period merged in by its date
get_archive_list_merged(current, html_files) ==
    get_archive_list_found_only(current, html_files \cup {current})

\* get_archive_list: (file name, period label, is current) per dated HTML
\* file of docs/, and the current period first when it has no file yet
get_archive_list(current, html_files) ==
    LET found    == sorted_periods_desc(html_files)
        archives == [i \in 1..Len(found) |-> <<found[i], found[i], found[i] = current>>]
    IN  IF \E i \in 1..Len(archives) : archives[i][1] = current
        THEN archives
        ELSE << <<current, current, TRUE>> >> \o archives

EmptyDisk ==
    [md      |-> <<>>,      \* news/{start}_{end}.md
     html    |-> <<>>,      \* docs/{start}_{end}.html
     index   |-> None,      \* docs/index.html
     json    |-> <<>>,      \* docs/summaries/{start}_{end}.json
     page    |-> None]      \* docs/summary.html

\* save_markdown that leaves no other period's file in news/
save_markdown_alone(d, period, content) ==
    [d EXCEPT !.md = (period :> content)]

save_markdown(d, period, content) ==
    [d EXCEPT !.md = (period :> content) @@ d.md]

\* save_html that writes index.html only when there is none yet
save_html_keeping_index(d, period, content) ==
    [d EXCEPT !.index = IF d.index = None THEN Some(content) ELSE d.index,
              !.html = (period :> content) @@ d.html]

save_html(d, period, content) ==
    [d EXCEPT !.index = Some(content), !.html = (period :> content) @@ d.html]

save_summary(d, period, summary_text, t_now) ==
    [d EXCEPT !.json = (period :> [period_start |-> period[1],
                                   period_end   |-> period[2],
                                   generated_at |-> t_now,
                                   summary      |-> summary_text]) @@ d.json]

\* load_all_summaries reading the files in ascending order of name
load_all_summaries_oldest_first(d) ==
    LET files == sorted_periods_desc(DOMAIN d.json)
    IN  [i \in 1..Len(files) |-> d.json[files[Len(files) + 1 - i]]]

load_all_summaries(d) ==
    LET files == sorted_periods_desc(DOMAIN d.json)
    IN  [i \in 1..Len(files) |-> d.json[files[i]]]

\* result with the open category appended, when it has items
page_flush(st) ==
    IF st.cur # None /\ Len(st.items) > 0
    THEN Append(st.result, [name |-> st.cur[1], items |-> st.items])
    ELSE st.result

\* if item_text: current_items.append(clean_text(item_text))
page_add_item(item_text, st) ==
    IF truthy(item_text)
    THEN [st EXCEPT !.items = Append(@, clean_text(item_text[1]))]
    ELSE st

\* one turn of parse_summary_to_categories' loop, on the stripped line: a
\* heading closes the open category and opens the one it matches, or none
page_line(line, st) ==
    IF Len(line) = 0 THEN st
    ELSE IF StartsWith(line, HEADING)
    THEN [cur    |-> match_category(strip(SubSeq(line, 4, Len(line)))),
          items  |-> <<>>,
          result |-> page_flush(st)]
    ELSE IF st.cur = None THEN st
    ELSE page_add_item(bullet_item_text(line), st)

RECURSIVE page_parse_lines(_, _, _)
page_parse_lines(lines, i, st) ==
    IF i > Len(lines) THEN page_flush(st)
    ELSE page_parse_lines(lines, i + 1, page_line(strip(lines[i]), st))

\* the name of the fallback category (topikku)
TOPIC_NAME == <<12488, 12500, 12483, 12463>>

\* the fallback's turn for one stripped line
page_flat_item(line) ==
    IF StartsWith(line, <<45, 32>>) \/ StartsWith(line, <<12539>>)
    THEN <<clean_text(strip(lstrip_set(line, BULLET_CHARS)))>>
    ELSE <<>>

page_flat_items(lines) ==
    Flatten([i \in 1..Len(lines) |-> page_flat_item(strip(lines[i]))])

page_fallback(items) ==
    IF Len(items) > 0 THEN << [name |-> TOPIC_NAME, items |-> items] >> ELSE <<>>

page_categories_of(result, lines) ==
    IF Len(result) > 0 THEN result ELSE page_fallback(page_flat_items(lines))

parse_summary_lines(lines) ==
    page_categories_of(
        page_parse_lines(lines, 1, [cur |-> None, items |-> <<>>, result |-> <<>>]),
        lines)

parse_summary_to_categories(summary_text) ==
    parse_summary_lines(Split(summary_text, <<NEWLINE>>))

page_category(cat) ==
    [header |-> escape_html(category_title(cat.name)),
     items  |-> [n \in 1..Len(cat.items) |-> escape_html(cat.items[n])]]

page_card_of(s, categories) ==
    <<"week-card",
      [period       |-> <<s.period_start, s.period_end>>,
       generated    |-> s.generated_at,
       categories   |-> [c \in 1..Len(categories) |-> page_category(categories[c])],
       archive_file |-> <<s.period_start, s.period_end>>]>>

page_card(s) == page_card_of(s, parse_summary_to_categories(s.summary))

page_cards(summaries) ==
    IF Len(summaries) = 0 THEN << <<"empty-state">> >>
    ELSE [i \in 1..Len(summaries) |-> page_card(summaries[i])]

\* generate_summary_page: the content written to docs/summary.html
generate_summary_page(d) == page_cards(load_all_summaries(d))

(***************************************************************************)
(* Bounds and inputs of the run orchestrator                               *)
(***************************************************************************)
\* runs of main in one behaviour
MaxRuns == 2

\* days the clock advances between runs
MaxTicks == 1

\* the day of the first run
FirstDay == 10

FirstNow == FirstDay * MinutesPerDay + 540      \* 09:00

EntryTime == FirstDay * MinutesPerDay + 480     \* 08:00

KEYWORD_TITLE == <<21172, 20685>>       \* a title that is a keyword (roudou)

PLAIN_TITLE == <<120>>                  \* "x"

GoodEntry ==
    [title |-> KEYWORD_TITLE, link |-> <<117>>, summary |-> None, description |-> None,
     published_parsed |-> Some(EntryTime), updated_parsed |-> None]

PlainEntry == [GoodEntry EXCEPT !.title = PLAIN_TITLE]

BadEntry == [GoodEntry EXCEPT !.published_parsed = Some(InvalidTime)]

\* replies of feedparser.parse(url) that give fetch_feed no article
EmptyReplies ==
    { [raises |-> TRUE,  bozo |-> FALSE, entries |-> <<>>],
      [raises |-> FALSE, bozo |-> TRUE,  entries |-> <<>>],
      [raises |-> FALSE, bozo |-> FALSE, entries |-> <<PlainEntry>>],
      [raises |-> FALSE, bozo |-> FALSE, entries |-> <<BadEntry, GoodEntry>>] }

\* replies with an entry that fetch_feed retains
DeliveringReplies ==
    { [raises |-> FALSE, bozo |-> FALSE, entries |-> <<GoodEntry>>],
      [raises |-> FALSE, bozo |-> FALSE, entries |-> <<GoodEntry, BadEntry>>] }

\* the feeds that have on-topic entries: the two URLs of one source
DeliveringFeeds == {3, 4}

\* what feedparser.parse does for feed i of RSS_FEEDS
FeedReplies(i) ==
    EmptyReplies \cup (IF i \in DeliveringFeeds THEN DeliveringReplies ELSE {})

\* "## " + the law category + "\n- t [kanren kiiwaado: a, b]"
CategorizedSummary ==
    HEADING \o CAT_LAW \o <<NEWLINE, 45, 32, 116, 32>> \o KEYWORD_OPEN
    \o <<58, 32, 97, 44, 32, 98, 93>>

\* what client.messages.create does when it is called
SummarizerReplies ==
    { [raises |-> TRUE,  text |-> <<>>],
      [raises |-> FALSE, text |-> <<>>],
      [raises |-> FALSE, text |-> CategorizedSummary] }

\* ANTHROPIC_AVAILABLE, whether ANTHROPIC_API_KEY is set, and the remote reply
Environments == [available : BOOLEAN, api_key : BOOLEAN, reply : SummarizerReplies]

\* the values of --days
DaysChoices == {1, DEFAULT_DAYS}

(***************************************************************************)
(* Summarizer                                                              *)
(***************************************************************************)
\* generate_ai_summary without the try around the remote request
generate_ai_summary_unguarded(e) ==
    IF ~e.available THEN [value |-> None, raised |-> FALSE, called |-> FALSE]
    ELSE IF ~e.api_key THEN [value |-> None, raised |-> FALSE, called |-> FALSE]
    ELSE IF e.reply.raises THEN [value |-> None, raised |-> TRUE, called |-> TRUE]
    ELSE [value |-> Some(e.reply.text), raised |-> FALSE, called |-> TRUE]

\* generate_ai_summary in environment e: [value, raised, called]; called:
\* the remote request was made
generate_ai_summary(e) ==
    IF ~e.available THEN [value |-> None, raised |-> FALSE, called |-> FALSE]
    ELSE IF ~e.api_key THEN [value |-> None, raised |-> FALSE, called |-> FALSE]
    ELSE IF e.reply.raises THEN [value |-> None, raised |-> FALSE, called |-> TRUE]
    ELSE [value |-> Some(e.reply.text), raised |-> FALSE, called |-> TRUE]

(***************************************************************************)
(* main                                                                    *)
(***************************************************************************)
\* the {start}_{end} of the file names
period_of(start, end) == <<date_str(start), date_str(end)>>

InitMain ==
    /\ pc = "idle"
    /\ args = [days |-> DEFAULT_DAYS, no_html |-> FALSE, no_markdown |-> FALSE,
               no_summary |-> FALSE]
    /\ now = FirstNow
    /\ start_date = window_start(FirstNow, DEFAULT_DAYS)
    /\ end_date = window_end(FirstNow)
    /\ feed_i = 1
    /\ all_items = <<>>
    /\ filtered_items = <<>>
    /\ summary = None
    /\ env = [available |-> TRUE, api_key |-> TRUE,
              reply |-> [raises |-> FALSE, text |-> <<>>]]
    /\ disk = EmptyDisk
    /\ log = <<>>
    /\ runs = 0

Init ==
    /\ InitMain
    /\ inp = None
    /\ out = None

\* time passes between two runs
Tick ==
    /\ pc \in {"idle", "done"}
    /\ now < FirstNow + MaxTicks * MinutesPerDay
    /\ now' = now + MinutesPerDay
    /\ UNCHANGED <<pc, args, start_date, end_date, feed_i, all_items, filtered_items,
                   summary, env, disk, log, runs, inp, out>>

\* main, to the head of the loop over RSS_FEEDS
Start ==
    /\ pc \in {"idle", "done"}
    /\ runs < MaxRuns
    /\ \E days \in DaysChoices, no_html \in BOOLEAN, no_markdown \in BOOLEAN,
          no_summary \in BOOLEAN :
          /\ args' = [days |-> days, no_html |-> no_html, no_markdown |-> no_markdown,
                      no_summary |-> no_summary]
          /\ start_date' = window_start(now, days)
    /\ end_date' = window_end(now)
    /\ feed_i' = 1
    /\ all_items' = <<>>
    /\ filtered_items' = <<>>
    /\ summary' = None
    /\ log' = <<>>
    /\ runs' = runs + 1
    /\ pc' = "fetch"
    /\ UNCHANGED <<now, env, disk, inp, out>>

\* one turn of the loop with the reply of the feed: fetch_feed(url,
\* source_name), all_items.extend(items); an exception leaving fetch_feed
\* would end main
FetchWith(feed) ==
    LET r == fetch_feed(feed, RSS_FEEDS[feed_i], now)
    IN  /\ pc = "fetch"
        /\ IF r.raised
           THEN /\ pc' = "crashed"
                /\ UNCHANGED <<all_items, feed_i>>
           ELSE /\ all_items' = all_items \o r.items
                /\ feed_i' = feed_i + 1
                /\ pc' = IF feed_i = Len(RSS_FEEDS) THEN "filter" ELSE "fetch"
        /\ UNCHANGED <<args, now, start_date, end_date, filtered_items, summary, env,
                       disk, log, runs>>

Fetch ==
    /\ pc = "fetch"
    /\ \E feed \in FeedReplies(feed_i) : FetchWith(feed)
    /\ UNCHANGED <<inp, out>>

\* the window selection without the early return
SelectWindowNoExit ==
    /\ pc = "filter"
    /\ filtered_items' = filter_by_date_range(all_items, start_date, end_date)
    /\ pc' = "summary"
    /\ UNCHANGED <<args, now, start_date, end_date, feed_i, all_items, summary, env,
                   disk, log, runs, inp, out>>

\* filter_by_date_range and the early return on an empty result
SelectWindow ==
    /\ pc = "filter"
    /\ filtered_items' = filter_by_date_range(all_items, start_date, end_date)
    /\ pc' = IF Len(filtered_items') = 0 THEN "done" ELSE "summary"
    /\ UNCHANGED <<args, now, start_date, end_date, feed_i, all_items, summary, env,
                   disk, log, runs, inp, out>>

\* the summary stage saving whatever text the summarizer returned, empty or not
SummarizeSavingEmpty ==
    /\ pc = "summary"
    /\ IF args.no_summary
       THEN /\ pc' = "markdown"
            /\ UNCHANGED <<summary, env, disk, log>>
       ELSE \E e \in Environments :
               LET r == generate_ai_summary(e)
               IN  /\ env' = e
                   /\ IF r.raised
                      THEN /\ pc' = "crashed"
                           /\ UNCHANGED <<summary, disk, log>>
                      ELSE /\ pc' = "markdown"
                           /\ summary' = r.value
                           /\ IF r.value # None
                              THEN /\ disk' = save_summary(disk,
                                                  period_of(start_date, end_date),
                                                  r.value[1], now)
                                   /\ log' = log \o <<"generate_ai_summary", "save_summary">>
                              ELSE /\ disk' = disk
                                   /\ log' = log \o <<"generate_ai_summary">>
    /\ UNCHANGED <<args, now, start_date, end_date, feed_i, all_items, filtered_items,
                   runs, inp, out>>

\* if not args.no_summary: generate_ai_summary, save_summary
Summarize ==
    /\ pc = "summary"
    /\ IF args.no_summary
       THEN /\ pc' = "markdown"
            /\ UNCHANGED <<summary, env, disk, log>>
       ELSE \E e \in Environments :
               LET r == generate_ai_summary(e)
               IN  /\ env' = e
                   /\ IF r.raised
                      THEN /\ pc' = "crashed"
                           /\ UNCHANGED <<summary, disk, log>>
                      ELSE /\ pc' = "markdown"
                           /\ summary' = r.value
                           /\ IF truthy(r.value)
                              THEN /\ disk' = save_summary(disk,
                                                  period_of(start_date, end_date),
                                                  r.value[1], now)
                                   /\ log' = log \o <<"generate_ai_summary", "save_summary">>
                              ELSE /\ disk' = disk
                                   /\ log' = log \o <<"generate_ai_summary">>
    /\ UNCHANGED <<args, now, start_date, end_date, feed_i, all_items, filtered_items,
                   runs, inp, out>>

\* if not args.no_markdown: generate_markdown, save_markdown
PersistMarkdown ==
    /\ pc = "markdown"
    /\ IF args.no_markdown
       THEN UNCHANGED <<disk, log>>
       ELSE /\ disk' = save_markdown(disk, period_of(start_date, end_date),
                           generate_markdown(filtered_items, start_date, end_date, now))
            /\ log' = log \o <<"generate_markdown", "save_markdown">>
    /\ pc' = "html"
    /\ UNCHANGED <<args, now, start_date, end_date, feed_i, all_items, filtered_items,
                   summary, env, runs, inp, out>>

\* the HTML stage skipped also when Markdown is skipped
PersistHtmlNeedsMarkdown ==
    /\ pc = "html"
    /\ IF args.no_html \/ args.no_markdown
       THEN UNCHANGED <<disk, log>>
       ELSE LET current  == period_of(start_date, end_date)
                archives == get_archive_list(current, DOMAIN disk.html)
                content  == generate_html(filtered_items, start_date, end_date,
                                          summary, archives, now)
                saved    == save_html(disk, current, content)
            IN  /\ disk' = [saved EXCEPT !.page = Some(generate_summary_page(saved))]
                /\ log' = log \o <<"get_archive_list", "generate_html", "save_html",
                                   "generate_summary_page">>
    /\ pc' = "done"
    /\ UNCHANGED <<args, now, start_date, end_date, feed_i, all_items, filtered_items,
                   summary, env, runs, inp, out>>

\* the HTML stage with the archive index built after the HTML is written
PersistHtmlIndexLast ==
    /\ pc = "html"
    /\ IF args.no_html
       THEN UNCHANGED <<disk, log>>
       ELSE LET current  == period_of(start_date, end_date)
                archives == get_archive_list(current, DOMAIN disk.html \cup {current})
                content  == generate_html(filtered_items, start_date, end_date,
                                          summary, archives, now)
                saved    == save_html(disk, current, content)
            IN  /\ disk' = [saved EXCEPT !.page = Some(generate_summary_page(saved))]
                /\ log' = log \o <<"generate_html", "save_html", "get_archive_list",
                                   "generate_summary_page">>
    /\ pc' = "done"
    /\ UNCHANGED <<args, now, start_date, end_date, feed_i, all_items, filtered_items,
                   summary, env, runs, inp, out>>

\* if not args.no_html: get_archive_list, generate_html, save_html,
\* generate_summary_page; then main returns
PersistHtml ==
    /\ pc = "html"
    /\ IF args.no_html
       THEN UNCHANGED <<disk, log>>
       ELSE LET current  == period_of(start_date, end_date)
                archives == get_archive_list(current, DOMAIN disk.html)
                content  == generate_html(filtered_items, start_date, end_date,
                                          summary, archives, now)
                saved    == save_html(disk, current, content)
            IN  /\ disk' = [saved EXCEPT !.page = Some(generate_summary_page(saved))]
                /\ log' = log \o <<"get_archive_list", "generate_html", "save_html",
                                   "generate_summary_page">>
    /\ pc' = "done"
    /\ UNCHANGED <<args, now, start_date, end_date, feed_i, all_items, filtered_items,
                   summary, env, runs, inp, out>>

Next ==
    \/ Tick
    \/ Start
    \/ Fetch
    \/ SelectWindow
    \/ Summarize
    \/ PersistMarkdown
    \/ PersistHtml

Spec == Init /\ [][Next]_vars

(***************************************************************************)
(* The run and its stages                                                  *)
(***************************************************************************)
\* the stages that call the summarizer or write a file
WritingStages ==
    {"generate_ai_summary", "save_summary", "save_markdown", "save_html",
     "generate_summary_page"}

\* C1: when the window selection leaves no article, the run ends there: the
\* next position of main is its end, no file of the disk is created or
\* changed by any step of that run, and neither the summarizer nor a stage
\* that writes a file has been executed when it ends, whatever the toggles
EmptyWindowEndsRun ==
    [][ /\ (pc = "filter" /\ Len(filtered_items') = 0)
            => (pc' = "done" /\ disk' = disk /\ log' = log)
        /\ (pc \in {"fetch", "filter"}) => disk' = disk
        /\ (pc' = "done" /\ Len(filtered_items') = 0)
            => (Range(log') \cap WritingStages = {} /\ summary' = None) ]_vars

\* a run with every stage enabled fetched articles, none of them in the
\* window, and has ended
EmptyWindowRunEnded ==
    /\ pc = "done"
    /\ runs > 0
    /\ Len(all_items) > 0
    /\ Len(filtered_items) = 0
    /\ ~args.no_summary /\ ~args.no_markdown /\ ~args.no_html

\* the summarizer is not available in environment e
Unavailable(e) == ~e.available \/ ~e.api_key \/ e.reply.raises

\* C3: when the summarizer is unavailable the run does not stop: past the
\* summary stage there is no summary and no summaries record was saved, and
\* at the end every enabled Markdown and HTML stage has run and the HTML
\* document of the period has no summary block
UnavailableSummarizerDegrades ==
    /\ pc # "crashed"
    /\ (/\ pc \in {"markdown", "html", "done"}
        /\ Len(filtered_items) > 0
        /\ ~args.no_summary
        /\ Unavailable(env))
       => /\ summary = None
          /\ "generate_ai_summary" \in Range(log)
          /\ "save_summary" \notin Range(log)
          /\ pc = "done" =>
                /\ ~args.no_markdown =>
                      /\ "generate_markdown" \in Range(log)
                      /\ "save_markdown" \in Range(log)
                      /\ period_of(start_date, end_date) \in DOMAIN disk.md
                /\ ~args.no_html =>
                      /\ "generate_html" \in Range(log)
                      /\ "save_html" \in Range(log)
                      /\ "generate_summary_page" \in Range(log)
                      /\ period_of(start_date, end_date) \in DOMAIN disk.html
                      /\ disk.html[period_of(start_date, end_date)].summary_section = <<>>
                      /\ disk.index # None
                      /\ disk.index[1].summary_section = <<>>

\* a run with every stage enabled, whose remote request raised, has ended
RemoteFailureRunEnded ==
    /\ pc = "done"
    /\ Len(filtered_items) > 0
    /\ ~args.no_summary /\ ~args.no_markdown /\ ~args.no_html
    /\ env.available /\ env.api_key /\ env.reply.raises

(***************************************************************************)
(* The fetch loop, with the reply of each feed and what fetch_feed made of *)
(* it on record                                                            *)
(***************************************************************************)
FetchObserved ==
    /\ pc = "fetch"
    /\ \E feed \in FeedReplies(feed_i) :
          /\ FetchWith(feed)
          /\ inp' = Some([reply |-> feed, source_name |-> RSS_FEEDS[feed_i]])
          /\ out' = Some(fetch_feed(feed, RSS_FEEDS[feed_i], now))

NextFetch ==
    \/ Start
    \/ FetchObserved
    \/ SelectWindow

SpecFetch == Init /\ [][NextFetch]_vars

\* the index of the first entry whose processing raises, or 0
FirstRaising(entries, t_now) ==
    IF \E i \in 1..Len(entries) : parse_date(entries[i], t_now).raised
    THEN CHOOSE i \in 1..Len(entries) :
             /\ parse_date(entries[i], t_now).raised
             /\ \A k \in 1..(i - 1) : ~parse_date(entries[k], t_now).raised
    ELSE 0

\* fetching or processing the feed failed
FetchFailed(feed, t_now) ==
    \/ feed.raises
    \/ feed.bozo /\ Len(feed.entries) = 0
    \/ FirstRaising(feed.entries, t_now) > 0

\* the reply cut before entry k
EntriesBefore(feed, k) ==
    [raises |-> FALSE, bozo |-> FALSE, entries |-> SubSeq(feed.entries, 1, k - 1)]

\* C2 (amended): fetch_feed never raises and main goes on to the next feed
\* after every feed; a feed whose parser raises or that is malformed with no
\* entries gives zero articles, and a feed with an entry whose processing
\* raises gives the articles retained from the entries before that entry
FetchFailureIsolated ==
    /\ [](pc # "crashed")
    /\ [](out # None =>
            /\ ~out[1].raised
            /\ (inp[1].reply.raises
                \/ (inp[1].reply.bozo /\ Len(inp[1].reply.entries) = 0))
                  => out[1].items = <<>>
            /\ (~inp[1].reply.raises /\ FirstRaising(inp[1].reply.entries, now) > 0)
                  => out[1].items =
                        fetch_feed(EntriesBefore(inp[1].reply,
                                       FirstRaising(inp[1].reply.entries, now)),
                                   inp[1].source_name, now).items)
    /\ [][pc = "fetch" =>
            /\ feed_i' = feed_i + 1
            /\ all_items' = all_items \o out'[1].items
            /\ pc' = IF feed_i = Len(RSS_FEEDS) THEN "filter" ELSE "fetch"]_vars

\* the loop went past a feed whose second entry raised and whose first entry
\* was retained, and is at the next feed
PartialFeedKept ==
    /\ pc = "fetch"
    /\ feed_i > 1
    /\ out # None
    /\ ~inp[1].reply.raises
    /\ FirstRaising(inp[1].reply.entries, now) = 2
    /\ Len(out[1].items) = 1

\* C2 as claimed: a feed that failed gives zero articles
FailedFeedGivesNothing ==
    (out # None /\ FetchFailed(inp[1].reply, now)) => out[1].items = <<>>

(***************************************************************************)
(* The window selection of a run, applied on its own                       *)
(***************************************************************************)
\* articles in one input of the window selection
MaxWindowItems == 3

\* values of --days
WindowDays == {1, 2, DEFAULT_DAYS}

\* the clock of the run: the start, the morning and the last minute of the day
WindowNows ==
    {FirstDay * MinutesPerDay, FirstNow, FirstDay * MinutesPerDay + MinutesPerDay - 1}

\* publication times around the two ends of the windows
WindowTimes ==
    { (FirstDay - DEFAULT_DAYS) * MinutesPerDay + MinutesPerDay - 1,
      (FirstDay - DEFAULT_DAYS + 1) * MinutesPerDay,
      (FirstDay - 1) * MinutesPerDay + MinutesPerDay - 1,
      FirstDay * MinutesPerDay,
      FirstDay * MinutesPerDay + MinutesPerDay - 1,
      (FirstDay + 1) * MinutesPerDay }

WindowArticle(t) == NewsItem(KEYWORD_TITLE, <<117>>, t, <<>>, SRC_RODO)

InitWindow ==
    /\ InitMain
    /\ inp \in [now : WindowNows, days : WindowDays, items : {<<>>}]
    /\ out = None

\* one more fetched article
WindowAdd ==
    /\ out = None
    /\ Len(inp.items) < MaxWindowItems
    /\ \E t \in WindowTimes : inp' = [inp EXCEPT !.items = Append(@, WindowArticle(t))]
    /\ UNCHANGED <<mainVars, out>>

\* main's window: end_date, start_date and filter_by_date_range
WindowApply ==
    /\ out = None
    /\ out' = Some(filter_by_date_range(inp.items, window_start(inp.now, inp.days),
                                        window_end(inp.now)))
    /\ UNCHANGED <<mainVars, inp>>

NextWindow ==
    \/ WindowAdd
    \/ WindowApply

SpecWindow == InitWindow /\ [][NextWindow]_vars

\* the calendar day of a time
DayOf(t) == t \div MinutesPerDay

\* C5: with N the day count and T the current day, the articles kept are
\* exactly those whose publication day lies in T-(N-1)..T, in input order
WindowKeepsTheDays ==
    out # None =>
        out[1] = SelectSeq(inp.items,
                     LAMBDA a : /\ DayOf(inp.now) - (inp.days - 1) <= DayOf(a.published)
                                /\ DayOf(a.published) <= DayOf(inp.now))

\* N = 7 on day 10: of an article of day 3, 23:59 and one of day 4, 00:00,
\* the second alone is kept
WindowExample ==
    /\ out # None
    /\ inp.days = 7
    /\ DayOf(inp.now) = 10
    /\ inp.items = <<WindowArticle(3 * MinutesPerDay + 1439), WindowArticle(4 * MinutesPerDay)>>
    /\ out[1] = <<WindowArticle(4 * MinutesPerDay)>>

(***************************************************************************)
(* The topic test of fetch_feed, applied to one entry                      *)
(***************************************************************************)
\* "x" and the first character of a keyword
TITLE_HALF == <<120, 21172>>

\* the keyword with a tag inside: clean_html joins its two characters
TITLE_TAGGED == <<21172, 60, 98, 62, 20685>>

\* the second character of the keyword and "y"
SUMMARY_HALF == <<20685, 121>>

PLAIN_SUMMARY == <<121>>

\* SummaryLimit times "y", then a keyword
LATE_KEYWORD_SUMMARY == [i \in 1..SummaryLimit |-> 121] \o KEYWORD_TITLE

FilterTitles == {PLAIN_TITLE, KEYWORD_TITLE, TITLE_HALF, TITLE_TAGGED}

FilterSummaries ==
    {None, Some(PLAIN_SUMMARY), Some(SUMMARY_HALF), Some(KEYWORD_TITLE),
     Some(LATE_KEYWORD_SUMMARY)}

FilterDescriptions == {None, Some(KEYWORD_TITLE)}

FilterEntries ==
    [title : FilterTitles, link : {<<117>>}, summary : FilterSummaries,
     description : FilterDescriptions, published_parsed : {Some(EntryTime)},
     updated_parsed : {None}]

InitFilter ==
    /\ InitMain
    /\ inp \in [entry : FilterEntries, source_name : Range(RSS_FEEDS)]
    /\ out = None

\* fetch_feed on a feed with the one entry
FilterApply ==
    /\ out = None
    /\ out' = Some(fetch_feed([raises |-> FALSE, bozo |-> FALSE, entries |-> <<inp.entry>>],
                              inp.source_name, now))
    /\ UNCHANGED <<mainVars, inp>>

\* the same entry arrives from another source
FilterResend ==
    /\ out # None
    /\ \E s \in Range(RSS_FEEDS) : inp' = [inp EXCEPT !.source_name = s]
    /\ out' = None
    /\ UNCHANGED mainVars

NextFilter ==
    \/ FilterApply
    \/ FilterResend

SpecFilter == InitFilter /\ [][NextFilter]_vars

\* the lower-cased concatenation of the cleaned title and the cleaned summary
TopicText(entry) == lower(clean_html(entry.title) \o clean_html(entry_summary(entry)))

HasKeyword(text) == \E k \in 1..Len(LABOR_KEYWORDS) : Contains(LABOR_KEYWORDS[k], text)

\* C6: the entry is retained if and only if a keyword occurs in the
\* lower-cased concatenation of its cleaned title and its cleaned summary
\* before truncation, whatever the source
KeywordDecidesRetention ==
    out # None =>
        /\ ~out[1].raised
        /\ Len(out[1].items) = (IF HasKeyword(TopicText(inp.entry)) THEN 1 ELSE 0)
        /\ \A i \in 1..Len(out[1].items) : out[1].items[i].source = inp.source_name

\* an entry is retained for a keyword that neither its title nor the
\* summary the article keeps contains
RetainedByLateKeyword ==
    /\ out # None
    /\ Len(out[1].items) = 1
    /\ ~HasKeyword(lower(out[1].items[1].title))
    /\ ~HasKeyword(lower(out[1].items[1].summary))
    /\ Len(out[1].items[1].summary) = SummaryLimit + Len(ELLIPSIS)

(***************************************************************************)
(* The two renderers, applied to one collection in several orders          *)
(***************************************************************************)
\* articles in one collection
MaxRenderItems == 3

MORNING == 8 * 60        \* 08:00

AFTERNOON == 14 * 60     \* 14:00

TWIN_TITLE == KEYWORD_TITLE \o <<50>>

RenderArticle(source, day, time, title) ==
    NewsItem(title, <<117>>, day * MinutesPerDay + time, <<>>, source)

\* articles of two sources, two days and two times: two of one source, day
\* and time, and two of one day and time from different sources
RenderArticles ==
    { RenderArticle(SRC_RODO, FirstDay, MORNING, KEYWORD_TITLE),
      RenderArticle(SRC_RODO, FirstDay, AFTERNOON, KEYWORD_TITLE),
      RenderArticle(SRC_RODO, FirstDay, AFTERNOON, TWIN_TITLE),
      RenderArticle(SRC_SATO, FirstDay, MORNING, KEYWORD_TITLE),
      RenderArticle(SRC_RODO, FirstDay - 1, AFTERNOON, KEYWORD_TITLE),
      RenderArticle(SRC_SATO, FirstDay - 1, MORNING, KEYWORD_TITLE) }

\* generate_markdown and generate_html of main on the items
Rendering(items) ==
    [md   |-> generate_markdown(items, start_date, end_date, now),
     html |-> generate_html(items, start_date, end_date, summary, <<>>, now)]

InitRender ==
    /\ InitMain
    /\ inp = <<>>
    /\ out = None

\* one more article in the collection
RenderAdd ==
    /\ out = None
    /\ Len(inp) < MaxRenderItems
    /\ \E a \in RenderArticles : inp' = Append(inp, a)
    /\ UNCHANGED <<mainVars, out>>

\* the collection is rendered
Render ==
    /\ out = None
    /\ out' = Some([items |-> inp, first |-> Rendering(inp), last |-> Rendering(inp)])
    /\ UNCHANGED <<mainVars, inp>>

\* the same articles arrive with two neighbours exchanged and are rendered
Rerender ==
    /\ out # None
    /\ \E i \in 1..(Len(inp) - 1) :
          /\ inp' = [inp EXCEPT ![i] = inp[i + 1], ![i + 1] = inp[i]]
          /\ out' = Some([out[1] EXCEPT !.last = Rendering(inp')])
    /\ UNCHANGED mainVars

NextRender ==
    \/ RenderAdd
    \/ Render
    \/ Rerender

SpecRender == InitRender /\ [][NextRender]_vars

\* the article bullets of a Markdown document from line i on, each with the
\* day heading and the source heading it stands under
RECURSIVE MdEntriesFrom(_, _, _, _)
MdEntriesFrom(doc, i, day, source) ==
    IF i > Len(doc) THEN <<>>
    ELSE IF doc[i][1] = "day" THEN MdEntriesFrom(doc, i + 1, doc[i][2], source)
    ELSE IF doc[i][1] = "source" THEN MdEntriesFrom(doc, i + 1, day, doc[i][2])
    ELSE IF doc[i][1] = "item"
    THEN <<[day |-> day, source |-> source, title |-> doc[i][2], link |-> doc[i][3],
            time |-> doc[i][4]]>>
         \o MdEntriesFrom(doc, i + 1, day, source)
    ELSE MdEntriesFrom(doc, i + 1, day, source)

MdEntries(doc) == MdEntriesFrom(doc, 1, -1, <<>>)

\* the day headings of a Markdown document
MdDays(doc) == SelectSeq(doc, LAMBDA l : l[1] = "day")

\* the source headings, each with the day heading it stands under
RECURSIVE MdSourcesFrom(_, _, _)
MdSourcesFrom(doc, i, day) ==
    IF i > Len(doc) THEN <<>>
    ELSE IF doc[i][1] = "day" THEN MdSourcesFrom(doc, i + 1, doc[i][2])
    ELSE IF doc[i][1] = "source"
    THEN <<[day |-> day, source |-> doc[i][2]]>> \o MdSourcesFrom(doc, i + 1, day)
    ELSE MdSourcesFrom(doc, i + 1, day)

\* what a Markdown bullet shows of an article
MdEntryOf(a) ==
    [day |-> DayOf(a.published), source |-> a.source, title |-> a.title, link |-> a.link,
     time |-> a.published % MinutesPerDay]

Count(seq, x) == Cardinality({i \in 1..Len(seq) : seq[i] = x})

\* C7: the Markdown document has its day headings in descending order, the
\* source headings of a day in ascending order and the bullets of a source
\* in descending time; every article has its bullets under its day and its
\* source, as many as the collection holds it; a day heading's count is the
\* number of bullets under it
MarkdownGroupedView ==
    out # None =>
        LET doc   == out[1].last.md
            es    == MdEntries(doc)
            days  == MdDays(doc)
            heads == MdSourcesFrom(doc, 1, -1)
        IN  /\ \A i, j \in 1..Len(days) : i < j => days[i][2] > days[j][2]
            /\ \A i, j \in 1..Len(heads) :
                  (i < j /\ heads[i].day = heads[j].day)
                      => StrLess(heads[i].source, heads[j].source)
            /\ \A i, j \in 1..Len(es) :
                  (i < j /\ es[i].day = es[j].day /\ es[i].source = es[j].source)
                      => es[i].time >= es[j].time
            /\ Len(es) = Len(inp)
            /\ \A k \in 1..Len(inp) :
                  Count(es, MdEntryOf(inp[k])) =
                      Count([n \in 1..Len(inp) |-> MdEntryOf(inp[n])], MdEntryOf(inp[k]))
            /\ \A i \in 1..Len(days) :
                  days[i][3] = Cardinality({n \in 1..Len(es) : es[n].day = days[i][2]})

\* sources B and A on one day, given as B then A, and two articles of B
\* given as 08:00 then 14:00: A is listed first, and 14:00 before 08:00
MarkdownExample ==
    /\ out # None
    /\ inp = <<RenderArticle(SRC_RODO, FirstDay, MORNING, KEYWORD_TITLE),
               RenderArticle(SRC_RODO, FirstDay, AFTERNOON, KEYWORD_TITLE),
               RenderArticle(SRC_SATO, FirstDay, MORNING, KEYWORD_TITLE)>>
    /\ MdEntries(out[1].last.md) = <<MdEntryOf(inp[3]), MdEntryOf(inp[2]), MdEntryOf(inp[1])>>

\* the cards of an HTML content from element i on, each with the day of the
\* section it stands in
RECURSIVE HtmlEntriesFrom(_, _, _)
HtmlEntriesFrom(content, i, day) ==
    IF i > Len(content) THEN <<>>
    ELSE IF content[i][1] = "date-section" THEN HtmlEntriesFrom(content, i + 1, content[i][2])
    ELSE IF content[i][1] = "news-card"
    THEN <<[day |-> day, source |-> content[i][2].source, title |-> content[i][2].title,
            link |-> content[i][2].href, time |-> content[i][2].time_str]>>
         \o HtmlEntriesFrom(content, i + 1, day)
    ELSE HtmlEntriesFrom(content, i + 1, day)

HtmlEntries(content) == HtmlEntriesFrom(content, 1, -1)

HtmlDays(content) == SelectSeq(content, LAMBDA l : l[1] = "date-section")

\* what a card shows of an article
HtmlEntryOf(a) ==
    [day |-> DayOf(a.published), source |-> escape_html(a.source),
     title |-> escape_html(a.title), link |-> escape_html(a.link),
     time |-> a.published % MinutesPerDay]

\* what a card shows of the article of a Markdown bullet
EscapedEntry(e) ==
    [day |-> e.day, source |-> escape_html(e.source), title |-> escape_html(e.title),
     link |-> escape_html(e.link), time |-> e.time]

\* C8 (amended): the HTML document has its day sections in descending
\* order and, inside a day, the cards of all sources together in descending
\* publication time, cards with one publication time in input order; every
\* article has its cards in the section of its day, and a section's count
\* is the number of its cards
HtmlDayView ==
    out # None =>
        LET content == out[1].last.html.content
            es      == HtmlEntries(content)
            days    == HtmlDays(content)
        IN  /\ \A i, j \in 1..Len(days) : i < j => days[i][2] > days[j][2]
            /\ \A i, j \in 1..Len(es) :
                  (i < j /\ es[i].day = es[j].day) => es[i].time >= es[j].time
            /\ Len(es) = Len(inp)
            /\ \A d \in {es[n].day : n \in 1..Len(es)} :
               \A t \in {es[n].time : n \in 1..Len(es)} :
                  SelectSeq(es, LAMBDA e : e.day = d /\ e.time = t)
                    = SelectSeq([n \in 1..Len(inp) |-> HtmlEntryOf(inp[n])],
                                LAMBDA e : e.day = d /\ e.time = t)
            /\ \A i \in 1..Len(days) :
                  days[i][4] = Cardinality({n \in 1..Len(es) : es[n].day = days[i][2]})

\* the cards of a day mix the sources: they are not in the order of the
\* Markdown bullets
HtmlMixesSources ==
    /\ out # None
    /\ Len(inp) = MaxRenderItems
    /\ \A i, j \in 1..Len(inp) : DayOf(inp[i].published) = DayOf(inp[j].published)
    /\ HtmlEntries(out[1].last.html.content)
         # [n \in 1..Len(inp) |-> EscapedEntry(MdEntries(out[1].last.md)[n])]

\* C8 as claimed: the cards are in the order of the Markdown bullets, by
\* day, then by source, then by time
HtmlSameViewAsMarkdown ==
    out # None =>
        HtmlEntries(out[1].last.html.content)
          = [n \in 1..Len(MdEntries(out[1].last.md)) |->
                EscapedEntry(MdEntries(out[1].last.md)[n])]

\* no two articles of one day have one publication time
DistinctTimes(items) ==
    \A i, j \in 1..Len(items) : i # j => items[i].published # items[j].published

\* no two articles of one source and day have one publication time
DistinctTimesPerSource(items) ==
    \A i, j \in 1..Len(items) :
        (i # j /\ items[i].source = items[j].source)
            => items[i].published # items[j].published

\* C10 (amended): for two orders of one collection, generate_html returns
\* the same document when no two of its articles have the same publication
\* time, and generate_markdown returns the same document when no two
\* articles of one source have the same publication time
RenderingIgnoresOrder ==
    out # None =>
        /\ DistinctTimes(inp) => out[1].first.html = out[1].last.html
        /\ DistinctTimesPerSource(inp) => out[1].first.md = out[1].last.md

\* three articles of distinct times, two of them of one source and one day,
\* rendered in two different orders
RenderedInTwoOrders ==
    /\ out # None
    /\ Len(inp) = MaxRenderItems
    /\ inp # out[1].items
    /\ DistinctTimes(inp)
    /\ \E i, j \in 1..Len(inp) :
          /\ i # j
          /\ inp[i].source = inp[j].source
          /\ DayOf(inp[i].published) = DayOf(inp[j].published)

\* C10 as claimed: the two documents are the same for any two orders
RenderingIgnoresAnyOrder ==
    out # None =>
        /\ out[1].first.html = out[1].last.html
        /\ out[1].first.md = out[1].last.md

(***************************************************************************)
(* From a feed entry to the HTML document: the text that is escaped         *)
(***************************************************************************)
\* the keyword, then what the feed sends for  & ,  < ,  "  and  >
TITLE_AMP == KEYWORD_TITLE \o <<32>> \o AMP_ENTITY

TITLE_LT == KEYWORD_TITLE \o <<32>> \o LT_ENTITY

TITLE_QUOT_GT == KEYWORD_TITLE \o <<32>> \o QUOT_ENTITY \o GT_ENTITY

EscapeTitles == {KEYWORD_TITLE, TITLE_AMP, TITLE_LT, TITLE_QUOT_GT}

\* "u", "u&v" and  u"v
EscapeLinks == { <<117>>, <<117, 38, 118>>, <<117, 34, 118>> }

\* the lengths of the plain text before the character to escape: up to
\* the card's limit
EscapePads == (CardSummaryLimit - 6)..CardSummaryLimit

EscapeTails == { <<121>>, AMP_ENTITY, LT_ENTITY, QUOT_ENTITY }

EscapeSummaries ==
    {None} \cup { Some([i \in 1..k |-> 121] \o t) : k \in EscapePads, t \in EscapeTails }

\* "## " + the law category + "\n- a<b & "c" [kanren kiiwaado: k&, <t>]"
HostileSummary ==
    HEADING \o CAT_LAW \o <<NEWLINE, 45, 32, 97, 60, 98, 32, 38, 32, 34, 99, 34, 32>>
    \o KEYWORD_OPEN \o <<58, 32, 107, 38, 44, 32, 60, 116, 62, 93>>

InitEscape ==
    /\ InitMain
    /\ inp \in [entry : [title : EscapeTitles, link : EscapeLinks,
                         summary : EscapeSummaries, description : {None},
                         published_parsed : {Some(EntryTime)}, updated_parsed : {None}],
                source_name : {SRC_RODO},
                summary : {None, Some(HostileSummary)}]
    /\ out = None

\* fetch_feed on the entry, then generate_html on its articles
EscapeApply ==
    /\ out = None
    /\ out' = Some(generate_html(
                  fetch_feed([raises |-> FALSE, bozo |-> FALSE, entries |-> <<inp.entry>>],
                             inp.source_name, now).items,
                  start_date, end_date, inp.summary, <<>>, now))
    /\ UNCHANGED <<mainVars, inp>>

\* the entry arrives from another source
EscapeResend ==
    /\ out # None
    /\ \E src \in Range(RSS_FEEDS) \ {inp.source_name} :
          inp' = [inp EXCEPT !.source_name = src]
    /\ inp.entry.summary = None
    /\ inp.summary = None
    /\ out' = None
    /\ UNCHANGED mainVars

NextEscape ==
    \/ EscapeApply
    \/ EscapeResend

SpecEscape == InitEscape /\ [][NextEscape]_vars

\* the text holds none of  < > "  and each of its & begins one of the four
\* entities
WellEscaped(t) ==
    \A i \in 1..Len(t) :
        /\ t[i] \notin {LT, GT, QUOT}
        /\ t[i] = AMP =>
              \E e \in {AMP_ENTITY, LT_ENTITY, GT_ENTITY, QUOT_ENTITY} : IsPrefixAt(e, t, i)

\* the texts of an HTML document that come from the articles and from the
\* summary
DynamicTexts(doc) ==
    UNION { {doc.content[i][2].source, doc.content[i][2].href, doc.content[i][2].title,
             doc.content[i][2].summary, doc.content[i][2].data_source} :
            i \in {n \in 1..Len(doc.content) : doc.content[n][1] = "news-card"} }
    \cup UNION { {doc.source_filters[i][2].source, doc.source_filters[i][2].data_filter} :
                 i \in 1..Len(doc.source_filters) }
    \cup UNION { {doc.summary_section[i][2].text, doc.summary_section[i][2].data_keywords}
                 \cup Range(doc.summary_section[i][2].keywords) :
                 i \in {n \in 1..Len(doc.summary_section) :
                           doc.summary_section[n][1] = "summary-item"} }

\* C4: every text of the document that comes from an article or from the
\* summary is escaped: it holds none of  < > "  and each of its & begins a
\* complete entity, also in the card summary cut to 120 characters
AllTextEscaped ==
    out # None => \A t \in DynamicTexts(out[1]) : WellEscaped(t)

(***************************************************************************)
(* The archive index, applied to a docs directory on its own               *)
(***************************************************************************)
\* dated HTML files in one docs directory
MaxArchiveFiles == 3

\* the days the periods of the files start and end on
ArchiveDays == (FirstDay - 2)..FirstDay

\* {start}_{end} of a file name
ArchivePeriods == {p \in ArchiveDays \X ArchiveDays : p[1] <= p[2]}

InitArchive ==
    /\ InitMain
    /\ inp \in [current : ArchivePeriods, files : {{}}]
    /\ out = None

\* one more dated HTML file in docs/
ArchiveAdd ==
    /\ out = None
    /\ Cardinality(inp.files) < MaxArchiveFiles
    /\ \E p \in ArchivePeriods \ inp.files : inp' = [inp EXCEPT !.files = @ \cup {p}]
    /\ UNCHANGED <<mainVars, out>>

ArchiveApply ==
    /\ out = None
    /\ out' = Some(get_archive_list(inp.current, inp.files))
    /\ UNCHANGED <<mainVars, inp>>

NextArchive ==
    \/ ArchiveAdd
    \/ ArchiveApply

SpecArchive == InitArchive /\ [][NextArchive]_vars

\* the positions of the list that carry file name p
ArchivePositions(archives, p) == {i \in 1..Len(archives) : archives[i][1] = p}

\* C11: the current period's file name occurs exactly once in the list, the
\* one flagged entry is the current period's, and every other dated HTML
\* file of the directory occurs exactly once, unflagged; nothing else occurs
ArchiveListsEachOnce ==
    out # None =>
        /\ Cardinality(ArchivePositions(out[1], inp.current)) = 1
        /\ \A i \in 1..Len(out[1]) : out[1][i][3] <=> (out[1][i][1] = inp.current)
        /\ \A p \in inp.files : Cardinality(ArchivePositions(out[1], p)) = 1
        /\ \A i \in 1..Len(out[1]) : out[1][i][1] \in inp.files \cup {inp.current}

\* the current period has a file among three on disk, and one without
ArchiveCurrentOnDisk ==
    /\ out # None
    /\ Cardinality(inp.files) = MaxArchiveFiles
    /\ inp.current \in inp.files
    /\ Len(out[1]) = MaxArchiveFiles
    /\ \E i \in 2..Len(out[1]) : out[1][i][3]

\* C12: the entries found on disk are in descending order of file name, and
\* the entry of a current period without a file stands first, before them
ArchiveOrder ==
    out # None =>
        LET first == IF inp.current \in inp.files THEN 1 ELSE 2
        IN  /\ \A i \in first..Len(out[1]) : \A j \in (i + 1)..Len(out[1]) :
                   PeriodLess(out[1][j][1], out[1][i][1])
            /\ inp.current \notin inp.files =>
                   /\ Len(out[1]) = Cardinality(inp.files) + 1
                   /\ out[1][1] = <<inp.current, inp.current, TRUE>>

\* files of two periods on disk and an older current period without a file:
\* three entries, the current one first
ArchiveOlderCurrentFirst ==
    /\ out # None
    /\ Cardinality(inp.files) = 2
    /\ inp.current \notin inp.files
    /\ \A p \in inp.files : PeriodLess(inp.current, p)
    /\ Len(out[1]) = 3
    /\ out[1][1][1] = inp.current
    /\ out[1][1][3]
    /\ ~out[1][2][3] /\ ~out[1][3][3]

(***************************************************************************)
(* The files of a sequence of runs                                         *)
(***************************************************************************)
\* the period of the run in progress, as in the file names
CurrentPeriod == period_of(start_date, end_date)

\* the step in which a run with HTML enabled writes its HTML files
WritesHtml == pc = "html" /\ ~args.no_html

\* C13: index.html and the dated HTML files change only in the step in which
\* a run writes HTML, and that step leaves in index.html and in the run's own
\* dated file the same document, the one of this run; so index.html, when it
\* exists, equals the dated copy of the most recent run that wrote HTML
IndexIsLatestCopy ==
    /\ [](disk.index # None => \E p \in DOMAIN disk.html : disk.html[p] = disk.index[1])
    /\ [][ /\ (disk'.index # disk.index \/ disk'.html # disk.html) => WritesHtml
           /\ WritesHtml =>
                  /\ disk'.index # None
                  /\ CurrentPeriod \in DOMAIN disk'.html
                  /\ disk'.html[CurrentPeriod] = disk'.index[1]
                  /\ disk'.index[1].period = CurrentPeriod
                  /\ disk'.index[1].collected_at = now
                  /\ disk'.index[1].total_count = Len(filtered_items) ]_vars

\* a second run has written HTML for another period than the first:
\* index.html is its copy and differs from the first run's file
IndexFollowsSecondRun ==
    /\ runs = 2
    /\ pc = "done"
    /\ "save_html" \in Range(log)
    /\ Cardinality(DOMAIN disk.html) = 2
    /\ disk.index = Some(disk.html[CurrentPeriod])
    /\ \E p \in DOMAIN disk.html : disk.html[p] # disk.index[1]

\* the files of directory dir (a function from periods to contents) that
\* belong to other periods than p are in dir2 with the same content, and
\* dir2 has no file that is neither in dir nor p's
OthersKept(dir, dir2, p) ==
    /\ \A q \in DOMAIN dir \ {p} : q \in DOMAIN dir2 /\ dir2[q] = dir[q]
    /\ DOMAIN dir2 \subseteq DOMAIN dir \cup {p}

\* C14: no step of a run for period P changes or removes a Markdown, dated
\* HTML or summary file of another period or creates one; the stages that
\* write leave P's own file holding this run's content, also when P had one
OtherPeriodsUntouched ==
    [][ /\ OthersKept(disk.md, disk'.md, CurrentPeriod)
        /\ OthersKept(disk.html, disk'.html, CurrentPeriod)
        /\ OthersKept(disk.json, disk'.json, CurrentPeriod)
        /\ pc = "markdown" /\ ~args.no_markdown =>
               /\ CurrentPeriod \in DOMAIN disk'.md
               /\ disk'.md[CurrentPeriod] =
                      generate_markdown(filtered_items, start_date, end_date, now)
        /\ WritesHtml =>
               /\ CurrentPeriod \in DOMAIN disk'.html
               /\ disk'.html[CurrentPeriod].total_count = Len(filtered_items)
        /\ pc = "summary" /\ truthy(summary') =>
               /\ CurrentPeriod \in DOMAIN disk'.json
               /\ disk'.json[CurrentPeriod].summary = summary'[1] ]_vars

\* a second run, for another period, has written its three files next to
\* those of the first
TwoPeriodsOnDisk ==
    /\ runs = 2
    /\ pc = "done"
    /\ {"save_summary", "save_markdown", "save_html"} \subseteq Range(log)
    /\ Cardinality(DOMAIN disk.md) = 2
    /\ Cardinality(DOMAIN disk.html) = 2
    /\ Cardinality(DOMAIN disk.json) = 2

\* the run has got a non-empty text from the summarizer: summary generation
\* is enabled, the window is not empty, and the request was made and answered
SummarizerReturnedText ==
    /\ ~args.no_summary
    /\ Len(filtered_items) > 0
    /\ env.available /\ env.api_key
    /\ ~env.reply.raises
    /\ Len(env.reply.text) > 0

\* C15: once a run is past its summary stage, it has written the summary
\* record of its period if and only if summary generation is enabled, the
\* window is not empty and the summarizer returned a non-empty text; the
\* record holds the run's start and end dates and that text as returned;
\* and no other step of a run changes a summary record
SummaryRecordWritten ==
    /\ [](pc \in {"markdown", "html", "done"} =>
             /\ "save_summary" \in Range(log) <=> SummarizerReturnedText
             /\ SummarizerReturnedText =>
                    /\ CurrentPeriod \in DOMAIN disk.json
                    /\ disk.json[CurrentPeriod].period_start = date_str(start_date)
                    /\ disk.json[CurrentPeriod].period_end = date_str(end_date)
                    /\ disk.json[CurrentPeriod].summary = env.reply.text)
    /\ [][disk'.json # disk.json => pc = "summary" /\ ~args.no_summary]_vars

\* a run over seven days has stored the text the summarizer returned
SummaryRecordStored ==
    /\ pc = "done"
    /\ args.days = DEFAULT_DAYS
    /\ SummarizerReturnedText
    /\ disk.json[CurrentPeriod].summary = CategorizedSummary
    /\ disk.json[CurrentPeriod].period_start < disk.json[CurrentPeriod].period_end

\* the cards of a summary-history page
PageCards(page) == SelectSeq(page, LAMBDA c : c[1] = "week-card")

\* summary.html exists and has one card per record of docs/summaries/, and
\* no other, in descending order of period
PageShowsAllRecords ==
    /\ disk.page # None
    /\ LET cards == PageCards(disk.page[1])
       IN  /\ Len(cards) = Cardinality(DOMAIN disk.json)
           /\ \A i \in 1..Len(cards) : cards[i][2].period \in DOMAIN disk.json
           /\ \A i \in 1..Len(cards) : \A j \in (i + 1)..Len(cards) :
                  PeriodLess(cards[j][2].period, cards[i][2].period)

\* the run has ended without early exit
RunCompleted == pc = "done" /\ Len(filtered_items) > 0

\* C16 as stated: after every run that completes without early exit,
\* summary.html has exactly one card per stored record, newest first
PageCompleteAfterEveryRun == RunCompleted => PageShowsAllRecords

\* C16: after every run that completes without early exit and with HTML
\* output enabled, summary.html has exactly one card per stored record,
\* the record of that run included, newest first
PageCompleteAfterHtmlRun == RunCompleted /\ ~args.no_html => PageShowsAllRecords

\* the second run, with HTML enabled, has stored a record next to the first
\* run's and its page shows both
PageShowsTwoRecords ==
    /\ RunCompleted
    /\ ~args.no_html
    /\ "save_summary" \in Range(log)
    /\ Cardinality(DOMAIN disk.json) = 2
    /\ Len(PageCards(disk.page[1])) = 2
    /\ PageCards(disk.page[1])[1][2].period = CurrentPeriod

\* C17: between runs, every card of summary.html links to the dated HTML file
\* of its period, and that file exists in docs/
PageLinksResolve ==
    pc \in {"idle", "done"} /\ disk.page # None =>
        \A i \in 1..Len(PageCards(disk.page[1])) :
            LET card == PageCards(disk.page[1])[i][2]
            IN  /\ card.archive_file = card.period
                /\ card.archive_file \in DOMAIN disk.html

(***************************************************************************)
(* The switches and the stages                                             *)
(***************************************************************************)
\* the stage ran in the run in progress
Ran(stage) == stage \in Range(log)

\* each switch decides its own stage and no other: summary generation runs
\* exactly without --no-summary and stores what the summarizer returned,
\* Markdown is written exactly without --no-markdown, HTML exactly without
\* --no-html
OwnStages ==
    /\ Ran("generate_ai_summary") <=> ~args.no_summary
    /\ Ran("save_summary") <=> SummarizerReturnedText
    /\ Ran("generate_markdown") <=> ~args.no_markdown
    /\ Ran("save_markdown") <=> ~args.no_markdown
    /\ Ran("generate_html") <=> ~args.no_html
    /\ Ran("save_html") <=> ~args.no_html

\* C20 as stated: in a completed run each switch decides its own stage only,
\* and the archive-index build and the rendering of the summary-history
\* page, which a run without switches executes, are executed whatever the
\* switches are
SwitchesTouchOwnStageOnly ==
    RunCompleted =>
        /\ OwnStages
        /\ Ran("get_archive_list")
        /\ Ran("generate_summary_page")

\* C20: in a completed run each switch decides its own stage only, whatever
\* the other two are; the archive-index build and the rendering of the
\* summary-history page belong to the HTML switch and run exactly when HTML
\* is not skipped
SwitchesIndependent ==
    RunCompleted =>
        /\ OwnStages
        /\ Ran("get_archive_list") <=> ~args.no_html
        /\ Ran("generate_summary_page") <=> ~args.no_html

\* a run with HTML skipped alone: summary and Markdown stages ran, no
\* archive index, no HTML, no summary-history page
HtmlAloneSkipped ==
    /\ RunCompleted
    /\ args.no_html /\ ~args.no_markdown /\ ~args.no_summary
    /\ log = <<"generate_ai_summary", "save_summary", "generate_markdown", "save_markdown">>

(***************************************************************************)
(* The two summary parsers, applied to one text                            *)
(***************************************************************************)
\* lines in one summary text
MaxSummaryLines == 3

\* "## " + a category, "## x", "- a", the bullet + " b", "1. c", "d", an
\* empty line, a blank line, and a bullet that has an annotation only
SummaryLineChoices ==
    { HEADING \o CAT_LAW,
      HEADING \o <<120>>,
      <<45, 32, 97>>,
      <<8226, 32, 98>>,
      <<49, 46, 32, 99>>,
      <<100>>,
      <<>>,
      <<SPACE>>,
      <<45, 32>> \o KEYWORD_OPEN \o <<58, 32, 107, RBRACKET>> }

\* the lines joined by "\n"
SummaryText(lines) ==
    Flatten([i \in 1..Len(lines) |->
                 lines[i] \o (IF i < Len(lines) THEN <<NEWLINE>> ELSE <<>>)])

InitSummary ==
    /\ InitMain
    /\ inp = <<>>
    /\ out = None

\* one more line of the summarizer's text
SummaryAddLine ==
    /\ out = None
    /\ Len(inp) < MaxSummaryLines
    /\ \E line \in SummaryLineChoices : inp' = Append(inp, line)
    /\ UNCHANGED <<mainVars, out>>

\* the text parsed for the report and for the summary-history page
SummaryApply ==
    /\ out = None
    /\ Len(inp) > 0
    /\ out' = Some([text |-> SummaryText(inp),
                    html |-> html_summary_section(Some(SummaryText(inp))),
                    page |-> parse_summary_to_categories(SummaryText(inp))])
    /\ UNCHANGED <<mainVars, inp>>

NextSummary ==
    \/ SummaryAddLine
    \/ SummaryApply

SpecSummary == InitSummary /\ [][NextSummary]_vars

\* the summary block without its frame
BlockContent(section) == Tail(section)

\* the number of items the categorized pass recognized
CategorizedItemCount(t) ==
    LET cats == html_categories(t)
    IN  Cardinality({<<k, n>> \in (1..Len(cats)) \X (1..MaxSummaryLines + 1) :
                        n <= Len(cats[k])})

\* the blank-line-delimited blocks of the text that have text
TextBlocks(t) ==
    SelectSeq(Split(t, <<NEWLINE, NEWLINE>>),
              LAMBDA b : \E k \in 1..Len(b) : b[k] \notin Whitespace)

\* the entries of the block of kind c
EntriesOfKind(content, c) == SelectSeq(content, LAMBDA e : e[1] = c)

\* the first two links of the chain: the categorized list exactly when the
\* categorized pass recognized an item, with all its items; otherwise the
\* flat list exactly when the bullet rule gives an item, with these items
ListStages(t, content) ==
    /\ Len(content) > 0
    /\ content[1][1] = "summary-category" <=> CategorizedItemCount(t) > 0
    /\ CategorizedItemCount(t) > 0 =>
           /\ Len(EntriesOfKind(content, "summary-item")) = CategorizedItemCount(t)
           /\ \A i \in 1..Len(content) : content[i][1] \in {"summary-category", "summary-item"}
    /\ CategorizedItemCount(t) = 0 =>
           /\ content[1][1] = "ul" <=> Len(html_flat_items(t)) > 0
           /\ Len(html_flat_items(t)) > 0 => content = << <<"ul">> >> \o html_flat_items(t)

\* every entry is a paragraph, one per block that has text, in order
ParagraphPerBlock(t, content) ==
    /\ Len(content) = Len(TextBlocks(t))
    /\ \A i \in 1..Len(content) : content[i] = <<"p", escape_html(strip(TextBlocks(t)[i]))>>

\* no list was recognized
NoList(t) == CategorizedItemCount(t) = 0 /\ Len(html_flat_items(t)) = 0

\* C18 as stated: for a non-empty text the block is not empty; it is the
\* categorized list if an item was categorized, else the flat list if the
\* bullet rule gives an item, else one paragraph per blank-line-delimited
\* block
FallbackChainThreeLinks ==
    out # None /\ Len(out[1].text) > 0 =>
        LET content == BlockContent(out[1].html)
        IN  /\ ListStages(out[1].text, content)
            /\ NoList(out[1].text) => ParagraphPerBlock(out[1].text, content)

\* C18: for a non-empty text the block is not empty; it is the categorized
\* list if an item was categorized, else the flat list if the bullet rule
\* gives an item, else one paragraph per blank-line-delimited block that has
\* text, and, when no block has text, one paragraph holding the whole text
FallbackChain ==
    out # None /\ Len(out[1].text) > 0 =>
        LET content == BlockContent(out[1].html)
        IN  /\ ListStages(out[1].text, content)
            /\ NoList(out[1].text) /\ Len(TextBlocks(out[1].text)) > 0 =>
                   ParagraphPerBlock(out[1].text, content)
            /\ NoList(out[1].text) /\ Len(TextBlocks(out[1].text)) = 0 =>
                   content = << <<"p", escape_html(out[1].text)>> >>

\* a text without category whose bullet line makes the flat list although a
\* numbered line and a plain line stand beside it
FlatListChosen ==
    /\ out # None
    /\ inp = << <<49, 46, 32, 99>>, <<45, 32, 97>>, <<100>> >>
    /\ BlockContent(out[1].html)[1] = <<"ul">>
    /\ Len(BlockContent(out[1].html)) = 2

\* the categories the report shows: the categories with items, in order,
\* each with its item texts, escaped as on the page
ReportCategories(t) ==
    LET cats == html_categories(t)
        used == SelectSeq([k \in 1..Len(cats) |-> k], LAMBDA k : Len(cats[k]) > 0)
    IN  [c \in 1..Len(used) |->
            [name  |-> CATEGORY_NAMES[used[c]],
             items |-> [n \in 1..Len(cats[used[c]]) |-> escape_html(cats[used[c]][n].text)]]]

\* the categories of the summary-history page, item texts escaped
PageCategories(cats) ==
    [c \in 1..Len(cats) |->
        [name  |-> cats[c].name,
         items |-> [n \in 1..Len(cats[c].items) |-> escape_html(cats[c].items[n])]]]

\* C19: the summary-history page parses a text as the report does: the same
\* categories in the same order with the same item texts when an item is
\* categorized, otherwise the same flat list of bullet items, otherwise no
\* list at all
ParsersAgree ==
    out # None /\ Len(out[1].text) > 0 =>
        IF CategorizedItemCount(out[1].text) > 0
        THEN PageCategories(out[1].page) = ReportCategories(out[1].text)
        ELSE IF Len(html_flat_items(out[1].text)) > 0
        THEN /\ Len(out[1].page) = 1
             /\ [n \in 1..Len(out[1].page[1].items) |-> escape_html(out[1].page[1].items[n])]
                    = [n \in 1..Len(html_flat_items(out[1].text)) |->
                           html_flat_items(out[1].text)[n][2].text]
        ELSE out[1].page = <<>>

(***************************************************************************)
(* The order of the stages                                                 *)
(***************************************************************************)
\* the article of a run in which one feed delivered one on-topic entry
StagesItems ==
    fetch_feed([raises |-> FALSE, bozo |-> FALSE, entries |-> <<GoodEntry>>],
               RSS_FEEDS[3], FirstNow).items

\* the environment in which the summarizer returns a text
ReturningEnvironment ==
    [available |-> TRUE, api_key |-> TRUE,
     reply |-> [raises |-> FALSE, text |-> CategorizedSummary]]

\* the files after a first run over one day with every stage enabled
DiskAfterOneDayRun ==
    LET start   == window_start(FirstNow, 1)
        end     == window_end(FirstNow)
        period  == period_of(start, end)
        stored  == save_summary(EmptyDisk, period, CategorizedSummary, FirstNow)
        written == save_markdown(stored, period,
                       generate_markdown(StagesItems, start, end, FirstNow))
        saved   == save_html(written, period,
                       generate_html(StagesItems, start, end, Some(CategorizedSummary),
                                     get_archive_list(period, {}), FirstNow))
    IN  [saved EXCEPT !.page = Some(generate_summary_page(saved))]

\* a run over seven days that has passed the window selection with one
\* article, with any switches: the first run, or the run after the one-day
\* run of the same day
InitStages ==
    /\ pc = "summary"
    /\ args \in [days : {DEFAULT_DAYS}, no_html : BOOLEAN, no_markdown : BOOLEAN,
                  no_summary : BOOLEAN]
    /\ now = FirstNow
    /\ start_date = window_start(FirstNow, DEFAULT_DAYS)
    /\ end_date = window_end(FirstNow)
    /\ feed_i = Len(RSS_FEEDS) + 1
    /\ all_items = StagesItems
    /\ filtered_items = StagesItems
    /\ summary = None
    /\ log = <<>>
    /\ \/ /\ runs = 1
          /\ disk = EmptyDisk
          /\ env = [available |-> TRUE, api_key |-> TRUE,
                    reply |-> [raises |-> FALSE, text |-> <<>>]]
       \/ /\ runs = 2
          /\ disk = DiskAfterOneDayRun
          /\ env = ReturningEnvironment
    /\ inp = None
    /\ out = None

\* the stages of main after the window selection
NextStages ==
    \/ Summarize
    \/ PersistMarkdown
    \/ PersistHtml

\* main leaves a stage
StageStep ==
    /\ pc \in {"summary", "markdown", "html"}
    /\ pc' \in {"markdown", "html", "done", "crashed"}

\* main is sequential code: a run that has come to a stage goes on; the
\* three stage actions have a step in every state in which main is at them
FairSpec == InitStages /\ [][NextStages]_vars /\ WF_pc(StageStep)

\* the run after the one-day run stands before its stages
SecondRunBeforeStages ==
    /\ pc = "summary"
    /\ runs = 2
    /\ args.days = DEFAULT_DAYS
    /\ now = FirstNow
    /\ feed_i = Len(RSS_FEEDS) + 1
    /\ all_items = StagesItems
    /\ filtered_items = StagesItems
    /\ summary = None
    /\ log = <<>>
    /\ disk = DiskAfterOneDayRun
    /\ env = ReturningEnvironment

\* the optional stages in the order of main
StageOrder ==
    <<"generate_ai_summary", "save_summary", "generate_markdown", "save_markdown",
      "get_archive_list", "generate_html", "save_html", "generate_summary_page">>

\* the place of a stage in the order
StagePlace(stage) == CHOOSE k \in 1..Len(StageOrder) : StageOrder[k] = stage

\* C21: the stages a run has executed are stages of the list summarize,
\* persist the record, persist Markdown, build the archive index, render and
\* persist HTML, render the summary-history page, in that order and each at
\* most once; the archive index the HTML shows is the one of the files that
\* were on disk before the HTML was written; every step of a stage leads to
\* the next stage, none back or to a failure; and a run that has passed the
\* window selection reaches Done
StagesInOrder ==
    /\ [](/\ Range(log) \subseteq Range(StageOrder)
          /\ \A i \in 1..Len(log) : \A j \in (i + 1)..Len(log) :
                 StagePlace(log[i]) < StagePlace(log[j]))
    /\ [][WritesHtml =>
             disk'.html[CurrentPeriod].archive_section
                 = html_archive_section(get_archive_list(CurrentPeriod, DOMAIN disk.html))]_vars
    /\ [][/\ pc = "summary" => pc' = "markdown"
          /\ pc = "markdown" => pc' = "html"
          /\ pc = "html" => pc' = "done"]_vars
    /\ (pc = "summary" ~> pc = "done")

\* a second run with every stage enabled, for a period older than the one
\* on disk: it ran the eight stages in order and its entry heads the index
AllStagesRan ==
    /\ pc = "done"
    /\ runs = 2
    /\ log = StageOrder
    /\ \E p \in DOMAIN disk.html : PeriodLess(CurrentPeriod, p)
    /\ disk.html[CurrentPeriod].archive_section[1][2] = CurrentPeriod

(***************************************************************************)
(* One feed entry, from the feed to the article                            *)
(***************************************************************************)
\* " " + the keyword + " <b>x</b>  y" + a tab
TITLE_SPACED_TAGS ==
    <<SPACE>> \o KEYWORD_TITLE \o <<SPACE, LT, 98, GT, 120, LT, 47, 98, GT, SPACE, SPACE, 121, 9>>

\* the keyword + "&lt;i&gt;x": a tag written with entities
TITLE_ENTITY_TAG == KEYWORD_TITLE \o LT_ENTITY \o <<105>> \o GT_ENTITY \o <<120>>

\* the keyword + "<>a>"
TITLE_EMPTY_BRACKETS == KEYWORD_TITLE \o <<LT, GT, 97, GT>>

\* the keyword + " < b"
TITLE_LONE_LT == KEYWORD_TITLE \o <<SPACE, LT, SPACE, 98>>

EntryTitles ==
    {KEYWORD_TITLE, TITLE_SPACED_TAGS, TITLE_ENTITY_TAG, TITLE_EMPTY_BRACKETS, TITLE_LONE_LT}

\* none; "y <p> z </p>"; "y", tab, newline, " z"; a text that is cut after
\* a space
EntrySummaries ==
    { None,
      Some(<<121, SPACE, LT, 112, GT, SPACE, 122, SPACE, LT, 47, 112, GT>>),
      Some(<<121, 9, NEWLINE, SPACE, 122>>),
      Some([i \in 1..(SummaryLimit - 1) |-> 121] \o <<SPACE, 122, 122>>) }

\* "u", "<b>u</b>", " u "
EntryLinks == { <<117>>, <<LT, 98, GT, 117, LT, 47, 98, GT>>, <<SPACE, 117, SPACE>> }

\* the parsed times of an entry: none, a time, the day before, an invalid one
EntryTimes == {None, Some(EntryTime), Some(EntryTime - MinutesPerDay), Some(InvalidTime)}

\* entries that differ in their texts, and entries that differ in their times
EntryChoices ==
    [title : EntryTitles, link : EntryLinks, summary : EntrySummaries,
     description : {None}, published_parsed : {Some(EntryTime)}, updated_parsed : {None}]
    \cup
    [title : {KEYWORD_TITLE}, link : {<<117>>}, summary : {None},
     description : {None}, published_parsed : EntryTimes, updated_parsed : EntryTimes]

InitEntry ==
    /\ InitMain
    /\ inp \in [entry : EntryChoices, now : {FirstNow, FirstNow + 1}]
    /\ out = None

\* parse_date on the entry, and fetch_feed on a feed with the one entry
EntryApply ==
    /\ out = None
    /\ out' = Some([date |-> parse_date(inp.entry, inp.now),
                    feed |-> fetch_feed([raises |-> FALSE, bozo |-> FALSE,
                                         entries |-> <<inp.entry>>],
                                        SRC_RODO, inp.now)])
    /\ UNCHANGED <<mainVars, inp>>

NextEntry == EntryApply

SpecEntry == InitEntry /\ [][NextEntry]_vars

\* the time the entry's fields resolve to: published, else updated, else
\* the clock
ResolvedTime(entry, t_now) ==
    IF entry.published_parsed # None THEN entry.published_parsed[1]
    ELSE IF entry.updated_parsed # None THEN entry.updated_parsed[1]
    ELSE t_now

HasBrackets(t) ==
    \E i \in 1..Len(t) : \E j \in (i + 2)..Len(t) : t[i] = LT /\ t[j] = GT

\* s has a tag: "<", some characters other than ">", and ">"
HasTag(t) ==
    \E i \in 1..Len(t) : \E j \in (i + 2)..Len(t) :
        /\ t[i] = LT
        /\ t[j] = GT
        /\ \A k \in (i + 1)..(j - 1) : t[k] # GT

\* no whitespace at either end and no two in a row
Trimmed(t) ==
    /\ Len(t) > 0 => t[1] \notin Whitespace /\ t[Len(t)] \notin Whitespace
    /\ \A k \in 1..(Len(t) - 1) : ~(t[k] \in Whitespace /\ t[k + 1] \in Whitespace)

\* C23 as stated: title, summary and link of every article have no "<",
\* characters, ">", and title and summary are trimmed
NoBracketsInArticle ==
    out # None =>
        \A n \in 1..Len(out[1].feed.items) :
            LET a == out[1].feed.items[n]
            IN  /\ ~HasBrackets(a.title) /\ ~HasBrackets(a.summary) /\ ~HasBrackets(a.link)
                /\ Trimmed(a.title) /\ Trimmed(a.summary)

\* C23: title and summary of every article have no tag ("<", one or more
\* characters other than ">", ">") and are trimmed; the link is the entry's,
\* as it came
TextFieldsClean ==
    out # None =>
        \A n \in 1..Len(out[1].feed.items) :
            LET a == out[1].feed.items[n]
            IN  /\ ~HasTag(a.title) /\ ~HasTag(a.summary)
                /\ Trimmed(a.title) /\ Trimmed(a.summary)
                /\ a.link = inp.entry.link

\* an entry with tags and spaces in title and summary and a tag in its link
\* has become an article
TaggedEntryCleaned ==
    /\ out # None
    /\ inp.entry.title = TITLE_SPACED_TAGS
    /\ inp.entry.summary # None
    /\ HasTag(inp.entry.summary[1])
    /\ HasTag(inp.entry.link)
    /\ Len(out[1].feed.items) = 1
    /\ out[1].feed.items[1].title = KEYWORD_TITLE \o <<SPACE, 120, SPACE, 121>>
    /\ out[1].feed.items[1].summary = <<121, SPACE, 122>>

(***************************************************************************)
(* The same entry from two feeds                                           *)
(***************************************************************************)
\* no element occurs twice
NoRepeats(seq) == \A i \in 1..Len(seq) : \A j \in (i + 1)..Len(seq) : seq[i] # seq[j]

\* C24: in the files a completed run has written, no article is listed
\* twice, in the Markdown or in the HTML, and the HTML header counts every
\* article once, also when two feeds of one source delivered the same entry
ReportDeduplicated ==
    RunCompleted =>
        /\ Ran("save_markdown") => NoRepeats(MdEntries(disk.md[CurrentPeriod]))
        /\ Ran("save_html") =>
               /\ NoRepeats(HtmlEntries(disk.index[1].content))
               /\ disk.index[1].total_count = Cardinality(Range(all_items))

(***************************************************************************)
(* A heading that names no category                                        *)
(***************************************************************************)
\* the stripped line is a "## " heading and match_category gives this result
HeadingMatching(line, m) ==
    /\ StartsWith(strip(line), HEADING)
    /\ match_category(strip(SubSeq(strip(line), 4, Len(strip(line))))) = m

\* line i is a heading that matches no category and no heading follows it
LastHeadingMatchesNone(lines, i) ==
    /\ HeadingMatching(lines[i], None)
    /\ \A j \in (i + 1)..Len(lines) : ~StartsWith(strip(lines[j]), HEADING)

\* the categorized pass of parse_summary_to_categories, before its fallback
PageCategorizedPass(t) ==
    page_parse_lines(Split(t, <<NEWLINE>>), 1,
                     [cur |-> None, items |-> <<>>, result |-> <<>>])

\* C25: when the last heading of the text matches none of the four labels,
\* the lines after it are attributed to no category: the categorized pass
\* of the report, and the one of the page, give what they give for the text
\* before that heading
HeadingResetsCategory ==
    out # None =>
        \A i \in 1..Len(inp) :
            LastHeadingMatchesNone(inp, i) =>
                /\ PageCategorizedPass(out[1].text)
                       = PageCategorizedPass(SummaryText(SubSeq(inp, 1, i - 1)))
                /\ html_categories(out[1].text)
                       = html_categories(SummaryText(SubSeq(inp, 1, i - 1)))

\* the page's half of the same statement
PageHeadingResetsCategory ==
    out # None =>
        \A i \in 1..Len(inp) :
            LastHeadingMatchesNone(inp, i) =>
                PageCategorizedPass(out[1].text)
                    = PageCategorizedPass(SummaryText(SubSeq(inp, 1, i - 1)))

(***************************************************************************)
(* Topics with keyword annotations under category headings                 *)
(***************************************************************************)
\* lines of a summary text
MaxTopicLines == 4

\* the item lines: the marked-up text, the text it displays, the text
\* between the colon and "]" (None: no annotation) and the colon
\*   **t** `c`  with  a, b      t  with  a,,b      *t*  without annotation
TopicChoices ==
    { [markup |-> <<42, 42, 116, 42, 42, 32, 96, 99, 96>>, text |-> <<116, 32, 99>>,
       group |-> Some(<<97, COMMA, SPACE, 98>>), colon |-> 58],
      [markup |-> <<116>>, text |-> <<116>>,
       group |-> Some(<<97, COMMA, COMMA, 98>>), colon |-> 65306],
      [markup |-> <<42, 116, 42>>, text |-> <<116>>,
       group |-> None, colon |-> 58] }

\* "- ", the text and, after a space, the annotation
TopicLine(c) ==
    <<HYPHEN, SPACE>> \o c.markup
    \o (IF c.group # None
        THEN <<SPACE>> \o KEYWORD_OPEN \o <<c.colon, SPACE>> \o c.group[1] \o <<RBRACKET>>
        ELSE <<>>)

TopicHeadings == {HEADING \o CAT_LAW, HEADING \o CAT_COURT}

TopicLineChoices == TopicHeadings \cup {TopicLine(c) : c \in TopicChoices}

TopicTexts ==
    UNION {[1..n -> TopicLineChoices] : n \in 1..MaxTopicLines}

InitTopics ==
    /\ InitMain
    /\ inp \in TopicTexts
    /\ out = None

NextTopics == SummaryApply

SpecTopics == InitTopics /\ [][NextTopics]_vars

\* the last heading before line i, or 0
LastHeading(lines, i) ==
    IF \E j \in 1..(i - 1) : lines[j] \in TopicHeadings
    THEN CHOOSE j \in 1..(i - 1) :
             /\ lines[j] \in TopicHeadings
             /\ \A l \in (j + 1)..(i - 1) : lines[l] \notin TopicHeadings
    ELSE 0

\* the item lines whose last heading is the one of category k, in order
LinesUnder(lines, k) ==
    LET under(i) == /\ lines[i] \notin TopicHeadings
                    /\ LastHeading(lines, i) # 0
                    /\ lines[LastHeading(lines, i)] = HEADING \o CATEGORY_NAMES[k]
    IN  [n \in 1..Cardinality({i \in 1..Len(lines) : under(i)}) |->
            lines[CHOOSE i \in 1..Len(lines) :
                      /\ under(i)
                      /\ Cardinality({j \in 1..(i - 1) : under(j)}) = n - 1]]

\* the terms between the commas, trimmed
Terms(group) ==
    LET parts == Split(group, <<COMMA>>)
    IN  [n \in 1..Len(parts) |-> strip(parts[n])]

\* the topic an item line stands for; keep(term) selects the keywords
TopicOf(line, keep(_)) ==
    LET c == CHOOSE c \in TopicChoices : TopicLine(c) = line
    IN  [text     |-> c.text,
         keywords |-> IF c.group = None THEN <<>> ELSE SelectSeq(Terms(c.group[1]), keep)]

TopicsUnder(lines, k, keep(_)) ==
    [n \in 1..Len(LinesUnder(lines, k)) |-> TopicOf(LinesUnder(lines, k)[n], keep)]

\* C26: the categorized pass of generate_html gives, for every item line
\* under a category, the displayed text without the annotation and without
\* the bold, italic and code delimiters, and as keywords the non-empty
\* trimmed terms of the annotation in their order; no annotation, no keyword
KeywordsNonEmptyInOrder ==
    out # None =>
        \A k \in 1..Len(CATEGORY_NAMES) :
            html_categories(out[1].text)[k]
                = TopicsUnder(inp, k, LAMBDA term : Len(term) > 0)

\* the same with every term between two commas kept, the empty ones too
KeywordsInOrder ==
    out # None =>
        \A k \in 1..Len(CATEGORY_NAMES) :
            html_categories(out[1].text)[k] = TopicsUnder(inp, k, LAMBDA term : TRUE)

(***************************************************************************)
(* One section per category                                                *)
(***************************************************************************)
\* the categories of the sections of the report's summary block, in order
ReportSections(section) ==
    LET headers == EntriesOfKind(BlockContent(section), "summary-category")
    IN  [n \in 1..Len(headers) |-> headers[n][2]]

\* the report has a section for exactly the categories that have an item
\* line, each once
ReportSectionsOnce ==
    out # None =>
        /\ NoRepeats(ReportSections(out[1].html))
        /\ \A k \in 1..Len(CATEGORY_NAMES) :
               k \in Range(ReportSections(out[1].html)) <=> Len(LinesUnder(inp, k)) > 0
        /\ (\E k \in 1..Len(CATEGORY_NAMES) : Len(LinesUnder(inp, k)) > 0) =>
               \A k \in 1..Len(CATEGORY_NAMES) :
                   Len(html_categories(out[1].text)[k]) = Len(LinesUnder(inp, k))

\* the same for the categories of the card on the summary-history page
PageSectionsOnce ==
    out # None =>
        /\ NoRepeats([n \in 1..Len(out[1].page) |-> out[1].page[n].name])
        /\ \A n \in 1..Len(out[1].page) : Len(out[1].page[n].items) > 0
        /\ \A k \in 1..Len(CATEGORY_NAMES) :
               Len(LinesUnder(inp, k)) > 0 =>
                   \E n \in 1..Len(out[1].page) :
                       /\ out[1].page[n].name = CATEGORY_NAMES[k]
                       /\ Len(out[1].page[n].items) = Len(LinesUnder(inp, k))

\* C27: in the report's summary block and on the summary-history page a
\* category without item has no section, and a category with items has one
\* section that holds all of them, also when its heading occurs twice
SectionsOncePerCategory == ReportSectionsOnce /\ PageSectionsOnce

(***************************************************************************)
(* The counts of the HTML document                                         *)
(***************************************************************************)
RECURSIVE SumOf(_)
SumOf(numbers) == IF Len(numbers) = 0 THEN 0 ELSE Head(numbers) + SumOf(Tail(numbers))

\* C28: the total count of the document is the number of the articles, of
\* the cards, the sum of the counts of the day sections and the sum of the
\* counts of the filter tabs; the source count is the number of distinct
\* sources (one tab each), the day count the number of day sections and of
\* date-navigation items
HeaderCountsAgree ==
    out # None =>
        LET h    == out[1].last.html
            days == HtmlDays(h.content)
        IN  /\ h.total_count = Len(inp)
            /\ h.total_count = Len(SelectSeq(h.content, LAMBDA e : e[1] = "news-card"))
            /\ h.total_count = SumOf([n \in 1..Len(days) |-> days[n][4]])
            /\ h.total_count
                   = SumOf([n \in 1..Len(h.source_filters) |-> h.source_filters[n][2].count])
            /\ h.source_count = Cardinality({inp[i].source : i \in 1..Len(inp)})
            /\ h.source_count = Len(h.source_filters)
            /\ h.day_count = Len(days)
            /\ h.day_count = Len(h.date_nav)

\* three articles of two sources and two days, two of them of one source
\* and day, are rendered
CountedDocument ==
    /\ out # None
    /\ out[1].last.html.total_count = 3
    /\ out[1].last.html.source_count = 2
    /\ out[1].last.html.day_count = 2
    /\ \E i, j \in 1..Len(inp) :
          /\ i # j
          /\ inp[i].source = inp[j].source
          /\ DayOf(inp[i].published) = DayOf(inp[j].published)

(***************************************************************************)
(* The summary block of a period and its record                            *)
(***************************************************************************)
\* C29: after a run has ended, the HTML file of a period has a summary
\* block exactly when docs/summaries/ has the record of that period, and
\* the block is the rendering of the record's text
SummaryBlockIffRecord ==
    pc = "done" =>
        \A p \in DOMAIN disk.html :
            /\ Len(disk.html[p].summary_section) > 0 <=> p \in DOMAIN disk.json
            /\ p \in DOMAIN disk.json =>
                   disk.html[p].summary_section
                       = html_summary_section(Some(disk.json[p].summary))

(***************************************************************************)
(* The summary-history page over files of any content                      *)
(***************************************************************************)
\* files in docs/summaries/
MaxSummaryFiles == 3

\* the keys generate_summary_page reads with s[...]
REQUIRED_KEYS == {"period_start", "period_end", "summary"}

\* the record save_summary writes for the one-day period of a day
RecordOfDay(day) ==
    [period_start |-> day, period_end |-> day, generated_at |-> FirstNow,
     summary |-> HEADING \o CAT_LAW \o <<NEWLINE, HYPHEN, SPACE, 97>>]

\* a file: text that json.loads rejects (valid FALSE), the record, or the
\* record without one of the required keys
FilesOfDay(day) ==
    {[valid |-> FALSE, data |-> RecordOfDay(day)],
     [valid |-> TRUE, data |-> RecordOfDay(day)]}
    \cup {[valid |-> TRUE,
           data  |-> [key \in DOMAIN RecordOfDay(day) \ {missing} |-> RecordOfDay(day)[key]]] :
              missing \in REQUIRED_KEYS}

\* the directory in the order of sorted(glob, reverse=True): the i-th file
\* is the one of the i-th day back
SummaryDirectories ==
    UNION {{files \in [1..n -> UNION {FilesOfDay(FirstDay - i) : i \in 1..n}] :
               \A i \in 1..n : files[i] \in FilesOfDay(FirstDay - i)} :
           n \in 0..MaxSummaryFiles}

\* load_all_summaries over the files: json.loads raises JSONDecodeError for
\* a file that is not JSON and the except clause goes on with the next one
load_summary_files(files) ==
    LET loaded == SelectSeq(files, LAMBDA f : f.valid)
    IN  [i \in 1..Len(loaded) |-> loaded[i].data]

\* s["period_start"], s["period_end"], s["summary"]: KeyError
card_raises(s) == ~(REQUIRED_KEYS \subseteq DOMAIN s)

\* generate_summary_page over the files: [raised, page]; the page is
\* written after the loop over the records
generate_summary_page_from(files) ==
    IF \E i \in 1..Len(load_summary_files(files)) : card_raises(load_summary_files(files)[i])
    THEN [raised |-> TRUE, page |-> None]
    ELSE [raised |-> FALSE, page |-> Some(page_cards(load_summary_files(files)))]

InitPage ==
    /\ InitMain
    /\ inp \in SummaryDirectories
    /\ out = None

PageApply ==
    /\ out = None
    /\ out' = Some(generate_summary_page_from(inp))
    /\ UNCHANGED <<mainVars, inp>>

NextPage == PageApply

SpecPage == InitPage /\ [][NextPage]_vars

\* the records of the files that are JSON and have the required keys
CompleteRecords(files) ==
    LET complete == SelectSeq(files, LAMBDA f : f.valid /\ REQUIRED_KEYS \subseteq DOMAIN f.data)
    IN  [i \in 1..Len(complete) |-> complete[i].data]

\* C30: whatever the files of docs/summaries/ hold, generate_summary_page
\* returns and writes the page, with the cards of the records that are JSON
\* and have period_start, period_end and summary; the other files are
\* skipped
PageWrittenForAnyFiles ==
    out # None =>
        /\ ~out[1].raised
        /\ out[1].page = Some(page_cards(CompleteRecords(inp)))

\* the same for directories whose JSON files all have the required keys
PageSkipsInvalidJson ==
    out # None /\ (\A i \in 1..Len(inp) : inp[i].valid => ~card_raises(inp[i].data)) =>
        /\ ~out[1].raised
        /\ out[1].page = Some(page_cards(CompleteRecords(inp)))

====
